---- MODULE Spec2Model ----
(***************************************************************************)
(* PrintTrace: the C API (src/src/PrintTraceAPI.cpp) and the staged        *)
(* pipeline ImageProcessor::processImageToStage                            *)
(* (src/src/ImageProcessor.cpp) as a state machine.                        *)
(*                                                                         *)
(* Numbers of type double are kept in thousandths (162.0 mm is 162000),    *)
(* so that 0.001 and 0.5 are integers; int32 fields are kept as they are.  *)
(* What OpenCV computes from the pixels of a file (decoding, contours,     *)
(* connected components, smoothing and dilation of a mask) is not          *)
(* computed here: a file is described by the outcome of each of these      *)
(* steps on it (FileAt), and the control flow around them is the code's.   *)
(***************************************************************************)
EXTENDS Integers, Sequences, FiniteSets, TLC

VARIABLES
    pc,            \* position of the current C API call / pipeline run
    runs,          \* number of calls started on the current input
    call,          \* arguments of the current call
    cpp_params,    \* ImageProcessor::ProcessingParams of the run
    stage,         \* last pipeline stage whose output was produced (-1: none)
    comps,         \* components invoked so far, each with the stage it works for
    img,           \* local Mats of processImageToStage
    contours,      \* local contours of processImageToStage
    stageOut,      \* (raster, contour) pair each stage produced, as produced
    ret,           \* what processImageToStage returned, or the exception thrown
    progress,      \* values delivered to the progress callback, in order
    errors,        \* codes delivered to the error callback, in order
    debugged,      \* debug artifacts handed to the debug sink, in order
    result,        \* the C API call's return code
    out,           \* the caller's result_image and contour
    prev,          \* the previous completed call on the same input
    vres           \* result of a stand-alone print_trace_validate_params call

vars == <<pc, runs, call, cpp_params, stage, comps, img, contours, stageOut,
          ret, progress, errors, debugged, result, out, prev, vres>>

(***************************************************************************)
(* PrintTraceResult                                                        *)
(***************************************************************************)
PRINT_TRACE_SUCCESS == 0
PRINT_TRACE_ERROR_INVALID_INPUT == -1
PRINT_TRACE_ERROR_FILE_NOT_FOUND == -2
PRINT_TRACE_ERROR_IMAGE_LOAD_FAILED == -3
PRINT_TRACE_ERROR_IMAGE_TOO_SMALL == -4
PRINT_TRACE_ERROR_NO_CONTOURS == -5
PRINT_TRACE_ERROR_NO_BOUNDARY == -6
PRINT_TRACE_ERROR_NO_OBJECT == -7
PRINT_TRACE_ERROR_DXF_WRITE_FAILED == -8
PRINT_TRACE_ERROR_INVALID_PARAMETERS == -9
PRINT_TRACE_ERROR_PROCESSING_FAILED == -10

(***************************************************************************)
(* PrintTraceProcessingStage                                               *)
(***************************************************************************)
PRINT_TRACE_STAGE_LOADED == 0
PRINT_TRACE_STAGE_LIGHTBOX_CROPPED == 1
PRINT_TRACE_STAGE_NORMALIZED == 2
PRINT_TRACE_STAGE_BOUNDARY_DETECTED == 3
PRINT_TRACE_STAGE_OBJECT_DETECTED == 4
PRINT_TRACE_STAGE_SMOOTHED == 5
PRINT_TRACE_STAGE_DILATED == 6
PRINT_TRACE_STAGE_FINAL == 7

Stages == PRINT_TRACE_STAGE_LOADED .. PRINT_TRACE_STAGE_FINAL

(***************************************************************************)
(* print_trace_get_param_ranges: the ranges the validation reads.          *)
(* Doubles in thousandths.                                                 *)
(***************************************************************************)
Ranges ==
    [ warp_size                 |-> <<500, 8000>>,
      real_world_size_mm        |-> <<10000, 500000>>,
      canny_lower               |-> <<10000, 200000>>,
      canny_upper               |-> <<50000, 400000>>,
      clahe_clip_limit          |-> <<500, 8000>>,
      clahe_tile_size           |-> <<4, 16>>,
      manual_threshold          |-> <<0, 255000>>,
      threshold_offset          |-> <<-50000, 50000>>,
      morph_kernel_size         |-> <<3, 15>>,
      contour_merge_distance_mm |-> <<1000, 20000>>,
      min_contour_area          |-> <<100000, 10000000>>,
      min_solidity              |-> <<100, 1000>>,
      max_aspect_ratio          |-> <<2000, 30000>>,
      polygon_epsilon_factor    |-> <<1, 20>>,
      corner_win_size           |-> <<3, 15>>,
      min_perimeter             |-> <<50000, 2000000>>,
      dilation_amount_mm        |-> <<0, 10000>>,
      smoothing_amount_mm       |-> <<100, 2000>> ]

canny_aperture_values == {3, 5, 7}

\* The fields print_trace_validate_params compares with a [min, max] range.
RangedFields == DOMAIN Ranges

\* The fields PrintTraceAPI.h documents with a range and the validation never
\* reads: the header's PrintTraceParams declares lightbox_width_px,
\* lightbox_height_px, lightbox_width_mm, lightbox_height_mm and
\* smoothing_mode, while PrintTraceAPI.cpp still reads warp_size and
\* real_world_size_mm.
HeaderRanges ==
    [ lightbox_width_px  |-> <<500, 8000>>,
      lightbox_height_px |-> <<500, 8000>>,
      lightbox_width_mm  |-> <<10000, 500000>>,
      lightbox_height_mm |-> <<10000, 500000>> ]

(***************************************************************************)
(* print_trace_get_default_params: overwrites the fields it knows and      *)
(* leaves the others of *params as they were.                              *)
(***************************************************************************)
GetDefaultParams(p) ==
    [p EXCEPT
      !.warp_size = 3240,
      !.real_world_size_mm = 162000,
      !.canny_lower = 50000,
      !.canny_upper = 150000,
      !.canny_aperture = 3,
      !.clahe_clip_limit = 2000,
      !.clahe_tile_size = 8,
      !.use_adaptive_threshold = FALSE,
      !.manual_threshold = 0,
      !.threshold_offset = 0,
      !.disable_morphology = FALSE,
      !.morph_kernel_size = 5,
      !.merge_nearby_contours = TRUE,
      !.contour_merge_distance_mm = 5000,
      !.min_contour_area = 500000,
      !.min_solidity = 300,
      !.max_aspect_ratio = 20000,
      !.polygon_epsilon_factor = 5,
      !.enable_subpixel_refinement = TRUE,
      !.corner_win_size = 5,
      !.validate_closed_contour = TRUE,
      !.min_perimeter = 100000,
      !.dilation_amount_mm = 0,
      !.enable_smoothing = FALSE,
      !.smoothing_amount_mm = 200,
      !.enable_debug_output = FALSE]

\* A PrintTraceParams whose every field holds the header's documented default.
\* Callers fill their struct like this before changing single fields.
HeaderDefaults ==
    [ warp_size |-> 3240, real_world_size_mm |-> 162000,
      lightbox_width_px |-> 3240, lightbox_height_px |-> 3240,
      lightbox_width_mm |-> 162000, lightbox_height_mm |-> 162000,
      canny_lower |-> 50000, canny_upper |-> 150000, canny_aperture |-> 3,
      clahe_clip_limit |-> 2000, clahe_tile_size |-> 8,
      use_adaptive_threshold |-> FALSE, manual_threshold |-> 0,
      threshold_offset |-> 0, disable_morphology |-> FALSE,
      morph_kernel_size |-> 5, merge_nearby_contours |-> TRUE,
      contour_merge_distance_mm |-> 5000, min_contour_area |-> 1000000,
      min_solidity |-> 500, max_aspect_ratio |-> 10000,
      polygon_epsilon_factor |-> 5, enable_subpixel_refinement |-> TRUE,
      corner_win_size |-> 5, validate_closed_contour |-> TRUE,
      min_perimeter |-> 100000, dilation_amount_mm |-> 0,
      enable_smoothing |-> FALSE, smoothing_amount_mm |-> 200,
      smoothing_mode |-> 1, enable_debug_output |-> FALSE ]

(***************************************************************************)
(* print_trace_validate_params                                             *)
(***************************************************************************)
InRange(p, f) == p[f] >= Ranges[f][1] /\ p[f] <= Ranges[f][2]

\* a null PrintTraceParams pointer
NullParams == [null |-> TRUE]

print_trace_validate_params(p) ==
    IF p = NullParams THEN PRINT_TRACE_ERROR_INVALID_PARAMETERS
    ELSE IF ~InRange(p, "warp_size") THEN PRINT_TRACE_ERROR_INVALID_PARAMETERS
    ELSE IF ~InRange(p, "real_world_size_mm") THEN PRINT_TRACE_ERROR_INVALID_PARAMETERS
    ELSE IF \/ ~InRange(p, "canny_lower")
            \/ ~InRange(p, "canny_upper")
            \/ p.canny_lower >= p.canny_upper THEN PRINT_TRACE_ERROR_INVALID_PARAMETERS
    ELSE IF p.canny_aperture \notin canny_aperture_values THEN PRINT_TRACE_ERROR_INVALID_PARAMETERS
    ELSE IF ~InRange(p, "clahe_clip_limit") THEN PRINT_TRACE_ERROR_INVALID_PARAMETERS
    ELSE IF ~InRange(p, "clahe_tile_size") THEN PRINT_TRACE_ERROR_INVALID_PARAMETERS
    ELSE IF ~InRange(p, "manual_threshold") THEN PRINT_TRACE_ERROR_INVALID_PARAMETERS
    ELSE IF ~InRange(p, "threshold_offset") THEN PRINT_TRACE_ERROR_INVALID_PARAMETERS
    ELSE IF ~InRange(p, "morph_kernel_size") THEN PRINT_TRACE_ERROR_INVALID_PARAMETERS
    ELSE IF ~InRange(p, "contour_merge_distance_mm") THEN PRINT_TRACE_ERROR_INVALID_PARAMETERS
    ELSE IF ~InRange(p, "min_contour_area") THEN PRINT_TRACE_ERROR_INVALID_PARAMETERS
    ELSE IF ~InRange(p, "min_solidity") THEN PRINT_TRACE_ERROR_INVALID_PARAMETERS
    ELSE IF ~InRange(p, "max_aspect_ratio") THEN PRINT_TRACE_ERROR_INVALID_PARAMETERS
    ELSE IF ~InRange(p, "polygon_epsilon_factor") THEN PRINT_TRACE_ERROR_INVALID_PARAMETERS
    ELSE IF ~InRange(p, "corner_win_size") THEN PRINT_TRACE_ERROR_INVALID_PARAMETERS
    ELSE IF ~InRange(p, "min_perimeter") THEN PRINT_TRACE_ERROR_INVALID_PARAMETERS
    ELSE IF ~InRange(p, "dilation_amount_mm") THEN PRINT_TRACE_ERROR_INVALID_PARAMETERS
    ELSE IF ~InRange(p, "smoothing_amount_mm") THEN PRINT_TRACE_ERROR_INVALID_PARAMETERS
    ELSE PRINT_TRACE_SUCCESS

(***************************************************************************)
(* ImageProcessor::ProcessingParams, default-constructed, and              *)
(* convertParams. PrintTraceAPI.cpp writes and reads the members warpSize  *)
(* and realWorldSizeMM (lines 18-19, 490); the pipeline reads the members  *)
(* lightboxWidthPx .. lightboxHeightMM, which convertParams never sets.    *)
(***************************************************************************)
ProcessingParams ==
    [ lightboxWidthPx |-> 3240, lightboxHeightPx |-> 3240,
      lightboxWidthMM |-> 162000, lightboxHeightMM |-> 162000,
      warpSize |-> 3240, realWorldSizeMM |-> 162000,
      cannyLower |-> 50000, cannyUpper |-> 150000, cannyAperture |-> 3,
      claheClipLimit |-> 2000, claheTileSize |-> 8,
      disableMorphology |-> FALSE, morphKernelSize |-> 5,
      useAdaptiveThreshold |-> TRUE, manualThreshold |-> 0,
      thresholdOffset |-> 0,
      mergeNearbyContours |-> TRUE, contourMergeDistanceMM |-> 5000,
      minContourArea |-> 500000, minSolidity |-> 300, maxAspectRatio |-> 20000,
      polygonEpsilonFactor |-> 5, forceConvex |-> FALSE,
      enableSubPixelRefinement |-> TRUE, cornerWinSize |-> 5,
      validateClosedContour |-> TRUE, minPerimeter |-> 100000,
      dilationAmountMM |-> 0,
      enableSmoothing |-> TRUE, smoothingAmountMM |-> 500, smoothingMode |-> 1,
      enableDebugOutput |-> FALSE, verboseOutput |-> TRUE,
      debugImageStack |-> << >> ]

convertParams(p) ==
    IF p = NullParams THEN ProcessingParams
    ELSE [ProcessingParams EXCEPT
            !.warpSize = p.warp_size,
            !.realWorldSizeMM = p.real_world_size_mm,
            !.cannyLower = p.canny_lower,
            !.cannyUpper = p.canny_upper,
            !.cannyAperture = p.canny_aperture,
            !.claheClipLimit = p.clahe_clip_limit,
            !.claheTileSize = p.clahe_tile_size,
            !.useAdaptiveThreshold = p.use_adaptive_threshold,
            !.manualThreshold = p.manual_threshold,
            !.thresholdOffset = p.threshold_offset,
            !.disableMorphology = p.disable_morphology,
            !.morphKernelSize = p.morph_kernel_size,
            !.mergeNearbyContours = p.merge_nearby_contours,
            !.contourMergeDistanceMM = p.contour_merge_distance_mm,
            !.minContourArea = p.min_contour_area,
            !.minSolidity = p.min_solidity,
            !.maxAspectRatio = p.max_aspect_ratio,
            !.polygonEpsilonFactor = p.polygon_epsilon_factor,
            !.enableSubPixelRefinement = p.enable_subpixel_refinement,
            !.cornerWinSize = p.corner_win_size,
            !.validateClosedContour = p.validate_closed_contour,
            !.minPerimeter = p.min_perimeter,
            !.dilationAmountMM = p.dilation_amount_mm,
            !.enableSmoothing = p.enable_smoothing,
            !.smoothingAmountMM = p.smoothing_amount_mm,
            !.enableDebugOutput = p.enable_debug_output]

(***************************************************************************)
(* Contours: sequences of integer points <<x, y>>.                         *)
(***************************************************************************)
Abs(n) == IF n < 0 THEN -n ELSE n

\* cv::norm of q - p. The object contours of this model have edges of integer
\* length only, on which the floor of the square root is the exact length.
norm(p, q) ==
    LET dx == Abs(q[1] - p[1])
        dy == Abs(q[2] - p[2])
        s  == dx * dx + dy * dy
    IN  CHOOSE r \in 0 .. (dx + dy) : r * r <= s /\ (r + 1) * (r + 1) > s

RECURSIVE OpenLength(_, _)
OpenLength(c, i) ==
    IF i >= Len(c) THEN 0 ELSE norm(c[i], c[i + 1]) + OpenLength(c, i + 1)

\* cv::arcLength(contour, closed): the edges in order, plus the edge from the
\* last point back to the first when closed.
arcLength(c, closed) ==
    IF Len(c) = 0 THEN 0
    ELSE OpenLength(c, 1) + (IF closed THEN norm(c[Len(c)], c[1]) ELSE 0)

Line2  == << <<0, 0>>, <<40, 0>> >>
Speck  == << <<0, 0>>, <<3, 0>>, <<0, 4>> >>
Tri    == << <<0, 0>>, <<30, 0>>, <<0, 40>> >>
Square == << <<0, 0>>, <<25, 0>>, <<25, 25>>, <<0, 25>> >>
Grown  == << <<-5, -5>>, <<30, -5>>, <<30, 30>>, <<-5, 30>> >>
Quad   == << <<10, 10>>, <<90, 12>>, <<88, 90>>, <<12, 88>> >>

(***************************************************************************)
(* The files of the model. A file is what the pipeline's OpenCV steps      *)
(* yield on it:                                                            *)
(*   exists      std::ifstream(path).good()                                *)
(*   decodable   imread(path) is not empty                                 *)
(*   rows, cols  size of the decoded image                                 *)
(*   boundary    findContours on the boundary edge image finds a contour   *)
(*   approx      vertices approximatePolygon yields at attempts 1..10      *)
(*   hull        vertices of the approximated convex hull                  *)
(*   candidates  contour points near the extremes of the boundary          *)
(*   components  the foreground components 1..n of the binarized image:    *)
(*               CC_STAT_AREA, distance of the centroid from the image     *)
(*               centre over min(cols, rows) in thousandths, and outline   *)
(*               (its edge contour after approxPolyDP)                     *)
(*   smoothed    the outline curvature-based smoothing yields              *)
(*   morphed     the contours found on the morphologically smoothed mask   *)
(*   dilated     the contours found on the dilated mask                    *)
(***************************************************************************)
GoodFile ==
    [ exists |-> TRUE, decodable |-> TRUE, rows |-> 480, cols |-> 640,
      boundary |-> TRUE,
      approx |-> <<4, 4, 4, 4, 4, 4, 4, 4, 4, 4>>, hull |-> 4, candidates |-> 4,
      components |-> << [area |-> 1200, dist |-> 50, outline |-> Square] >>,
      smoothed |-> Tri, morphed |-> <<Square>>, dilated |-> <<Grown>> ]

FileAt(path) ==
    CASE path = "missing.jpg" -> [GoodFile EXCEPT !.exists = FALSE]
      [] path = ""            -> [GoodFile EXCEPT !.exists = FALSE]
      [] path = "corrupt.jpg" -> [GoodFile EXCEPT !.decodable = FALSE]
      [] path = "small.jpg"   -> [GoodFile EXCEPT !.rows = 99, !.cols = 100]
      [] path = "narrow.jpg"  -> [GoodFile EXCEPT !.rows = 100, !.cols = 99]
      [] path = "min.jpg"     -> [GoodFile EXCEPT !.rows = 100, !.cols = 100]
      [] path = "black.jpg"   -> [GoodFile EXCEPT !.boundary = FALSE]
      [] path = "skew.jpg"    -> [GoodFile EXCEPT
                                    !.approx = <<6, 6, 5, 5, 5, 5, 3, 3, 3, 3>>,
                                    !.hull = 5, !.candidates = 2]
      [] path = "jagged.jpg"  -> [GoodFile EXCEPT
                                    !.approx = <<6, 6, 6, 6, 6, 5, 5, 5, 5, 5>>,
                                    !.hull = 6, !.candidates = 6]
      [] path = "empty.jpg"   -> [GoodFile EXCEPT !.components = << >>]
      [] path = "dust.jpg"    -> [GoodFile EXCEPT !.components =
                                    << [area |-> 40, dist |-> 300, outline |-> Speck],
                                       [area |-> 90, dist |-> 10, outline |-> Speck] >>]
      [] path = "speck.jpg"   -> [GoodFile EXCEPT !.components =
                                    << [area |-> 1100, dist |-> 0, outline |-> Speck] >>,
                                    !.smoothed = Speck, !.morphed = << >>,
                                    !.dilated = << >>]
      [] path = "wire.jpg"    -> [GoodFile EXCEPT !.components =
                                    << [area |-> 1300, dist |-> 0, outline |-> Line2] >>,
                                    !.smoothed = Line2, !.morphed = <<Line2>>,
                                    !.dilated = <<Line2>>]
      [] path = "thin.jpg"    -> [GoodFile EXCEPT !.morphed = << >>,
                                    !.dilated = <<Line2>>]
      [] OTHER                -> GoodFile

\* The input paths of the model: a null pointer, the empty string, and files.
Paths == {"null", "", "missing.jpg", "corrupt.jpg", "small.jpg", "narrow.jpg", "min.jpg",
          "black.jpg", "skew.jpg", "jagged.jpg", "empty.jpg", "dust.jpg", "speck.jpg",
          "wire.jpg", "thin.jpg", "part.jpg"}

(***************************************************************************)
(* The parameter structs of the model's callers.                           *)
(***************************************************************************)
DefaultParams == GetDefaultParams(HeaderDefaults)

\* valid parameter structs: the optional stages on and off, debug output,
\* a perimeter floor above every contour of the model, single-component mode
PipelineParams ==
    { [DefaultParams EXCEPT !.enable_smoothing = sm, !.dilation_amount_mm = dil] :
        sm \in BOOLEAN, dil \in {0, 1000} }
    \cup
    { [DefaultParams EXCEPT !.enable_smoothing = TRUE, !.dilation_amount_mm = 1000,
                            !.enable_debug_output = TRUE],
      [DefaultParams EXCEPT !.min_perimeter = 2000000],
      [DefaultParams EXCEPT !.merge_nearby_contours = FALSE] }

\* parameter structs print_trace_validate_params rejects
BadParams ==
    { [DefaultParams EXCEPT !.warp_size = 499],
      [DefaultParams EXCEPT !.canny_lower = 150000] }

\* smoothing enabled with each value of smoothing_mode: morphological,
\* curvature-based, and one the header's range [0, 1] excludes
ModeParams ==
    { [DefaultParams EXCEPT !.enable_smoothing = TRUE, !.smoothing_mode = m] :
        m \in {0, 2} }

\* the combinations of the three threshold parameters: adaptive with a
\* manual value, manual with an offset, offset alone, adaptive alone
ThresholdParams ==
    { [DefaultParams EXCEPT !.use_adaptive_threshold = TRUE, !.manual_threshold = 128000],
      [DefaultParams EXCEPT !.manual_threshold = 128000, !.threshold_offset = 10000],
      [DefaultParams EXCEPT !.threshold_offset = -10000],
      [DefaultParams EXCEPT !.use_adaptive_threshold = TRUE] }

\* smoothing enabled with an amount of 0, and a negative dilation: values
\* the C API rejects and a C++ caller can pass
AmountParams ==
    { [DefaultParams EXCEPT !.enable_smoothing = TRUE, !.smoothing_amount_mm = 0],
      [DefaultParams EXCEPT !.dilation_amount_mm = -1000] }

\* morphological smoothing followed by dilation
FallbackParams ==
    { [DefaultParams EXCEPT !.enable_smoothing = TRUE, !.smoothing_mode = 0,
                            !.dilation_amount_mm = 1000] }

\* sub-pixel refinement of the corners switched off
RefinementParams ==
    { [DefaultParams EXCEPT !.enable_subpixel_refinement = FALSE] }

CallParams ==
    {NullParams} \cup PipelineParams \cup BadParams \cup ModeParams \cup ThresholdParams
    \cup AmountParams \cup FallbackParams \cup RefinementParams

(***************************************************************************)
(* The calls of the model: which entry point, with which pointers.         *)
(***************************************************************************)
CallShapes ==
    { [api |-> "to_stage", target |-> t, result_image |-> TRUE, contour |-> TRUE,
       progress_callback |-> TRUE, error_callback |-> TRUE] : t \in Stages }
    \cup
    { [api |-> "to_stage", target |-> PRINT_TRACE_STAGE_FINAL, result_image |-> FALSE,
       contour |-> TRUE, progress_callback |-> TRUE, error_callback |-> TRUE],
      [api |-> "to_stage", target |-> PRINT_TRACE_STAGE_OBJECT_DETECTED,
       result_image |-> TRUE, contour |-> FALSE,
       progress_callback |-> FALSE, error_callback |-> FALSE],
      [api |-> "to_contour", target |-> PRINT_TRACE_STAGE_FINAL, result_image |-> TRUE,
       contour |-> TRUE, progress_callback |-> TRUE, error_callback |-> TRUE],
      [api |-> "to_dxf", target |-> PRINT_TRACE_STAGE_FINAL, result_image |-> TRUE,
       contour |-> TRUE, progress_callback |-> TRUE, error_callback |-> TRUE],
      [api |-> "cpp_contour", target |-> PRINT_TRACE_STAGE_FINAL, result_image |-> TRUE,
       contour |-> TRUE, progress_callback |-> FALSE, error_callback |-> FALSE],
      [api |-> "cpp_stage", target |-> PRINT_TRACE_STAGE_OBJECT_DETECTED,
       result_image |-> TRUE, contour |-> TRUE,
       progress_callback |-> FALSE, error_callback |-> FALSE] }

\* the C++ entry points: ImageProcessor::processImageToContour and
\* ImageProcessor::processImageToStage, called with a ProcessingParams object
\* the caller keeps from one call to the next
CppApis == {"cpp_contour", "cpp_stage"}

\* calls on one input (path and parameters) the model follows
MaxRuns == 2

NoMat == [kind |-> "empty", file |-> "none"]
Mat(kind, path) == [kind |-> kind, file |-> path]

NoCall == [api |-> "none", path |-> "null", params |-> NullParams, target |-> 0,
           result_image |-> FALSE, contour |-> FALSE,
           progress_callback |-> FALSE, error_callback |-> FALSE]
NoImg == [original |-> NoMat, gray |-> NoMat, normalized |-> NoMat,
          warped |-> NoMat, warpedNormalized |-> NoMat, pixelsPerMM |-> 0,
          thresholds |-> << >>]
NoContours == [boundary |-> << >>, corners |-> << >>, refined |-> << >>,
               object |-> << >>, processed |-> << >>]
NoRet == [kind |-> "none"]
\* the caller's result_image and contour before the call: whatever they held
Unset == [kind |-> "unset"]
NoOut == [image |-> Unset, contour |-> Unset]
NoResult == [done |-> FALSE, thrown |-> FALSE, code |-> 0]
Returned(code) == [done |-> TRUE, thrown |-> FALSE, code |-> code]
\* a C++ entry point left by an exception
Thrown == [done |-> TRUE, thrown |-> TRUE, code |-> 0]
NoPrev == [api |-> "none", target |-> 0, result |-> NoResult, ret |-> NoRet, out |-> NoOut]
NoStageOut == [s \in Stages |-> [kind |-> "none"]]

Init ==
    /\ pc = "idle"
    /\ runs = 0
    /\ call = NoCall
    /\ cpp_params = ProcessingParams
    /\ stage = -1
    /\ comps = << >>
    /\ img = NoImg
    /\ contours = NoContours
    /\ stageOut = NoStageOut
    /\ ret = NoRet
    /\ progress = << >>
    /\ errors = << >>
    /\ debugged = << >>
    /\ result = NoResult
    /\ out = NoOut
    /\ prev = NoPrev
    /\ vres = NoResult

(***************************************************************************)
(* Exception messages, as the words of e.what(); std::string::find of a    *)
(* phrase is the search for its words as a contiguous run.                 *)
(***************************************************************************)
find(what, needle) ==
    \E i \in 0 .. (Len(what) - Len(needle)) :
        \A j \in 1 .. Len(needle) : what[i + j] = needle[j]

MsgEmptyPath    == <<"Image", "path", "cannot", "be", "empty">>
MsgLoadFailed   == <<"Failed", "to", "load", "image", ":", "path">>
MsgTooSmall     == <<"Image", "too", "small", "(", "minimum", "100x100", "pixels",
                     "required", ")">>
MsgNoBoundary   == <<"No", "boundary", "contours", "found">>
MsgEmptyImage   == <<"Input", "image", "is", "empty">>
MsgFourCorners  == <<"Expected", "to", "find", "4", "corners", "in", "the", "contour", ".">>
MsgBadSize      == <<"Target", "size", "and", "real", "world", "dimensions", "must",
                     "be", "positive">>
MsgNoComponents == <<"No", "object", "components", "found">>
MsgNoValidComps == <<"No", "valid", "object", "components", "found">>
MsgNoValidComp  == <<"No", "valid", "object", "component", "found">>
MsgNoEdges      == <<"No", "edge", "contours", "found">>
MsgValidation   == <<"Final", "contour", "validation", "failed">>

Throw(type, what) == [kind |-> "throw", type |-> type, what |-> what]
Value(image, contour) == [kind |-> "value", image |-> image, contour |-> contour]

\* handleException: the code returned for an exception with message `what`
handleException(what) ==
    IF find(what, <<"Failed", "to", "load", "image">>) THEN PRINT_TRACE_ERROR_IMAGE_LOAD_FAILED
    ELSE IF find(what, <<"too", "small">>) THEN PRINT_TRACE_ERROR_IMAGE_TOO_SMALL
    ELSE IF find(what, <<"No", "contours", "found">>) THEN PRINT_TRACE_ERROR_NO_CONTOURS
    ELSE IF find(what, <<"4", "corners">>) THEN PRINT_TRACE_ERROR_NO_BOUNDARY
    ELSE IF find(what, <<"No", "contours", "found", "for", "the", "object">>)
         THEN PRINT_TRACE_ERROR_NO_OBJECT
    ELSE PRINT_TRACE_ERROR_PROCESSING_FAILED

\* the code handleException hands to the error callback
handleExceptionCallbackCode == PRINT_TRACE_ERROR_PROCESSING_FAILED

(***************************************************************************)
(* The C API: print_trace_process_to_stage and its wrappers                *)
(***************************************************************************)
IsCApi == call.api \in {"to_stage", "to_contour", "to_dxf"}

Report(code) == IF call.error_callback THEN Append(errors, code) ELSE errors
Progress(seq, v) == IF call.progress_callback THEN Append(seq, v) ELSE seq

\* the ProcessingParams a C++ caller of processImageToContour fills in itself
\* from the same values: every member, smoothingMode included
CallerProcessingParams(params) ==
    IF params = NullParams THEN ProcessingParams
    ELSE [convertParams(params) EXCEPT !.smoothingMode = params.smoothing_mode]

\* a new call: the first on an input chooses the path and the parameters,
\* the following ones ask for other stages of the same input
Call(path, params, shape) ==
    /\ pc = "idle"
    /\ runs < MaxRuns
    /\ runs > 0 => (path = call.path /\ params = call.params)
    /\ shape.api \in CppApis => path # "null"
    /\ runs' = runs + 1
    /\ call' = [api |-> shape.api, path |-> path, params |-> params,
                target |-> shape.target, result_image |-> shape.result_image,
                contour |-> shape.contour,
                progress_callback |-> shape.progress_callback,
                error_callback |-> shape.error_callback]
    /\ prev' = IF runs = 0 THEN NoPrev
               ELSE [api |-> call.api, target |-> call.target, result |-> result,
                     ret |-> ret, out |-> out]
    /\ cpp_params' = IF shape.api \in CppApis
                     THEN IF call.api \in CppApis THEN cpp_params
                          ELSE CallerProcessingParams(params)
                     ELSE ProcessingParams
    /\ pc' = CASE shape.api = "to_dxf" -> "dxf_input"
               [] shape.api \in CppApis -> "s_load"
               [] OTHER -> "api_input"
    /\ stage' = -1
    /\ comps' = << >>
    /\ img' = NoImg
    /\ contours' = NoContours
    /\ stageOut' = NoStageOut
    /\ ret' = NoRet
    /\ progress' = << >>
    /\ errors' = << >>
    /\ debugged' = << >>
    /\ result' = NoResult
    /\ out' = NoOut
    /\ UNCHANGED vres

\* print_trace_process_image_to_dxf, lines 557-562: its own pointer check
DxfCheckInput ==
    /\ pc = "dxf_input"
    /\ IF call.path = "null"
       THEN /\ errors' = Report(PRINT_TRACE_ERROR_INVALID_INPUT)
            /\ result' = Returned(PRINT_TRACE_ERROR_INVALID_INPUT)
            /\ pc' = "idle"
       ELSE /\ pc' = "api_input"
            /\ UNCHANGED <<errors, result>>
    /\ UNCHANGED <<runs, call, cpp_params, stage, comps, img, contours, stageOut,
                   ret, progress, debugged, out, prev, vres>>

\* where a call goes when print_trace_process_to_stage returns `code`
AfterToStage(code) ==
    IF call.api = "to_dxf" /\ code = PRINT_TRACE_SUCCESS THEN "dxf_save" ELSE "idle"

\* lines 427-432
ApiCheckInput ==
    /\ pc = "api_input"
    /\ IF call.path = "null" \/ ~call.result_image
       THEN /\ errors' = Report(PRINT_TRACE_ERROR_INVALID_INPUT)
            /\ result' = Returned(PRINT_TRACE_ERROR_INVALID_INPUT)
            /\ pc' = AfterToStage(PRINT_TRACE_ERROR_INVALID_INPUT)
       ELSE /\ pc' = "api_file"
            /\ UNCHANGED <<errors, result>>
    /\ UNCHANGED <<runs, call, cpp_params, stage, comps, img, contours, stageOut,
                   ret, progress, debugged, out, prev, vres>>

NullImage == [kind |-> "null", width |-> 0, height |-> 0, channels |-> 0]
NullContour == [kind |-> "null", points |-> << >>, point_count |-> 0, pixels_per_mm |-> 0]

\* lines 434-454: the outputs are cleared, then the file is opened
ApiCheckFile ==
    /\ pc = "api_file"
    /\ out' = [image |-> NullImage,
               contour |-> IF call.contour THEN NullContour ELSE out.contour]
    /\ IF ~FileAt(call.path).exists
       THEN /\ errors' = Report(PRINT_TRACE_ERROR_FILE_NOT_FOUND)
            /\ result' = Returned(PRINT_TRACE_ERROR_FILE_NOT_FOUND)
            /\ pc' = AfterToStage(PRINT_TRACE_ERROR_FILE_NOT_FOUND)
       ELSE /\ pc' = "api_validate"
            /\ UNCHANGED <<errors, result>>
    /\ UNCHANGED <<runs, call, cpp_params, stage, comps, img, contours, stageOut,
                   ret, progress, debugged, prev, vres>>

\* a null params pointer handed on as it is
EffectiveParamsUnreplaced(params) == params

\* lines 456-461: a null params pointer is replaced by the defaults, written
\* into an uninitialised local struct
EffectiveParams(params) ==
    IF params = NullParams THEN GetDefaultParams(HeaderDefaults) ELSE params

\* lines 456-469
ApiValidate ==
    /\ pc = "api_validate"
    /\ LET validation_result == print_trace_validate_params(EffectiveParams(call.params))
       IN  IF validation_result # PRINT_TRACE_SUCCESS
           THEN /\ errors' = Report(validation_result)
                /\ result' = Returned(validation_result)
                /\ pc' = AfterToStage(validation_result)
           ELSE /\ pc' = "api_begin"
                /\ UNCHANGED <<errors, result>>
    /\ UNCHANGED <<runs, call, cpp_params, stage, comps, img, contours, stageOut,
                   ret, progress, debugged, out, prev, vres>>

\* lines 471-476: first progress report, conversion of the parameters
ApiBegin ==
    /\ pc = "api_begin"
    /\ progress' = Progress(progress, 0)
    /\ cpp_params' = convertParams(EffectiveParams(call.params))
    /\ pc' = "s_load"
    /\ UNCHANGED <<runs, call, stage, comps, img, contours, stageOut, ret, errors,
                   debugged, result, out, prev, vres>>

(***************************************************************************)
(* The pipeline's functions                                                *)
(***************************************************************************)
\* loadImage rejecting a side of exactly 100 pixels as well
loadImageAbove100(path) ==
    IF path = "" THEN Throw("invalid_argument", MsgEmptyPath)
    ELSE LET f == FileAt(path)
         IN  IF ~(f.exists /\ f.decodable) THEN Throw("runtime_error", MsgLoadFailed)
             ELSE IF f.rows <= 100 \/ f.cols <= 100 THEN Throw("runtime_error", MsgTooSmall)
             ELSE Value(Mat("original", path), << >>)

loadImage(path) ==
    IF path = "" THEN Throw("invalid_argument", MsgEmptyPath)
    ELSE LET f == FileAt(path)
         IN  IF ~(f.exists /\ f.decodable) THEN Throw("runtime_error", MsgLoadFailed)
             ELSE IF f.rows < 100 \/ f.cols < 100 THEN Throw("runtime_error", MsgTooSmall)
             ELSE Value(Mat("original", path), << >>)

\* pushDebugImage and pushDebugContour, for the names pushed in a row
pushDebugImage(p, names) ==
    IF ~p.enableDebugOutput \/ ~p.verboseOutput THEN p
    ELSE [p EXCEPT !.debugImageStack = @ \o names]

\* flushDebugStack: the artifacts written, numbered from 1
Flushed(p) ==
    IF ~p.enableDebugOutput \/ p.debugImageStack = << >> THEN << >>
    ELSE [i \in 1 .. Len(p.debugImageStack) |->
            [index |-> i, name |-> p.debugImageStack[i]]]

flushDebugStack(p) ==
    IF ~p.enableDebugOutput \/ p.debugImageStack = << >> THEN p
    ELSE [p EXCEPT !.debugImageStack = << >>]

\* findBoundaryContour: throws when the edge image holds no contour
findBoundaryContour(f) ==
    IF ~f.boundary THEN Throw("runtime_error", MsgNoBoundary)
    ELSE Value(NoMat, Quad)

\* lines 1799-1814: up to 10 approximations, the factor raised by 0.005 after
\* each that does not yield 4 vertices
RECURSIVE ApproxLoop(_, _, _)
ApproxLoop(f, attempts, epsilonFactor) ==
    IF attempts >= 10
    THEN [found |-> FALSE, attempts |-> attempts, epsilonFactor |-> epsilonFactor]
    ELSE IF f.approx[attempts + 1] = 4
         THEN [found |-> TRUE, attempts |-> attempts + 1, epsilonFactor |-> epsilonFactor]
         ELSE ApproxLoop(f, attempts + 1, epsilonFactor + 5)

\* lines 1816-1920: where the 4 corners come from
CornerSource(f) ==
    IF ApproxLoop(f, 0, 20).found THEN "approx"
    ELSE IF f.hull = 4 THEN "hull"
    ELSE IF f.candidates >= 4 THEN "extremes"
    ELSE "inscribed"

\* a polygon of n vertices, as approxPolyDP and the candidate scan yield it:
\* the corners of the lightbox, then further points of its boundary
NGon(n) == [i \in 1 .. n |-> IF i <= 4 THEN Quad[i] ELSE <<50, 90 + i>>]

\* element k (from 0) of the sorted vector of the values of `coords`
SortedCoord(coords, k) ==
    CHOOSE v \in {coords[i] : i \in 1 .. Len(coords)} :
        /\ Cardinality({i \in 1 .. Len(coords) : coords[i] < v}) <= k
        /\ Cardinality({i \in 1 .. Len(coords) : coords[i] <= v}) > k

\* lines 1875-1905: the rectangle between the 10th and the 90th percentile
\* of the boundary's coordinates
InscribedRectangle(boundaryContour) ==
    LET xCoords == [i \in 1 .. Len(boundaryContour) |-> boundaryContour[i][1]]
        yCoords == [i \in 1 .. Len(boundaryContour) |-> boundaryContour[i][2]]
        x1 == SortedCoord(xCoords, Len(xCoords) \div 10)
        x2 == SortedCoord(xCoords, (Len(xCoords) * 9) \div 10)
        y1 == SortedCoord(yCoords, Len(yCoords) \div 10)
        y2 == SortedCoord(yCoords, (Len(yCoords) * 9) \div 10)
    IN  << <<x1, y1>>, <<x2, y1>>, <<x2, y2>>, <<x1, y2>> >>

\* the corner search keeping every corner candidate it found
SelectCornersAllCandidates(f, boundaryContour) ==
    IF ApproxLoop(f, 0, 20).found THEN NGon(f.approx[ApproxLoop(f, 0, 20).attempts])
    ELSE IF Len(NGon(f.hull)) = 4 THEN NGon(f.hull)
    ELSE IF Len(NGon(f.candidates)) >= 4 THEN NGon(f.candidates)
    ELSE InscribedRectangle(boundaryContour)

\* lines 1799-1920: `corners` after the approximation loop and its
\* fallbacks: the approximation that has 4 vertices, else the approximated
\* hull when it has 4, else the first 4 corner candidates (sorted by angle,
\* which the model leaves out) when there are at least 4, else the
\* inscribed rectangle
SelectCorners(f, boundaryContour) ==
    IF ApproxLoop(f, 0, 20).found THEN NGon(f.approx[ApproxLoop(f, 0, 20).attempts])
    ELSE IF Len(NGon(f.hull)) = 4 THEN NGon(f.hull)
    ELSE IF Len(NGon(f.candidates)) >= 4 THEN SubSeq(NGon(f.candidates), 1, 4)
    ELSE InscribedRectangle(boundaryContour)

\* static_cast<int> of a value in thousandths: truncation towards zero
Trunc(m) == IF m >= 0 THEN m \div 1000 ELSE -((-m) \div 1000)
ToFloat(c) == [i \in 1 .. Len(c) |-> <<c[i][1] * 1000, c[i][2] * 1000>>]
ToInt(c) == [i \in 1 .. Len(c) |-> <<Trunc(c[i][1]), Trunc(c[i][2])>>]

\* cornerSubPix moves each corner by a fraction of a pixel
cornerSubPix(c) == [i \in 1 .. Len(c) |-> <<c[i][1] + 250, c[i][2] - 250>>]

refineCorners(corners, p) ==
    IF ~p.enableSubPixelRefinement \/ Len(corners) # 4 THEN ToFloat(corners)
    ELSE cornerSubPix(ToFloat(corners))

\* static_cast<double>(px) / mm, in hundredths of a pixel per mm
PerMM(px, mm) == (px * 100000) \div mm

\* warpImage rejecting only negative sizes
warpImageNonNegative(originalImg, corners, width, height, realWorldWidthMM, realWorldHeightMM) ==
    IF originalImg = NoMat THEN Throw("invalid_argument", MsgEmptyImage)
    ELSE IF Len(corners) # 4 THEN Throw("runtime_error", MsgFourCorners)
    ELSE IF width < 0 \/ height < 0 \/ realWorldWidthMM < 0 \/ realWorldHeightMM < 0
         THEN Throw("invalid_argument", MsgBadSize)
    ELSE [kind |-> "value", image |-> Mat("warped", originalImg.file),
          pixelsPerMM |-> IF realWorldWidthMM = 0 \/ realWorldHeightMM = 0 THEN 0
                          ELSE (PerMM(width, realWorldWidthMM)
                                + PerMM(height, realWorldHeightMM)) \div 2]

\* warpImage (Point2f overload): its checks, the warped image and the average
\* pixels per mm
warpImage(originalImg, corners, width, height, realWorldWidthMM, realWorldHeightMM) ==
    IF originalImg = NoMat THEN Throw("invalid_argument", MsgEmptyImage)
    ELSE IF Len(corners) # 4 THEN Throw("runtime_error", MsgFourCorners)
    ELSE IF width <= 0 \/ height <= 0 \/ realWorldWidthMM <= 0 \/ realWorldHeightMM <= 0
         THEN Throw("invalid_argument", MsgBadSize)
    ELSE [kind |-> "value", image |-> Mat("warped", originalImg.file),
          pixelsPerMM |-> (PerMM(width, realWorldWidthMM)
                           + PerMM(height, realWorldHeightMM)) \div 2]

\* twice cv::contourArea: the shoelace sum
RECURSIVE Shoelace(_, _)
Shoelace(c, i) ==
    IF i > Len(c) THEN 0
    ELSE LET q == c[IF i = Len(c) THEN 1 ELSE i + 1]
         IN  c[i][1] * q[2] - q[1] * c[i][2] + Shoelace(c, i + 1)
contourArea2(c) == IF Len(c) = 0 THEN 0 ELSE Abs(Shoelace(c, 1))

\* the loop "if (area > maxArea) { maxArea = area; bestIdx = i; }" from
\* maxArea = 0, bestIdx = -1: the index kept (0: none), scanning from i
RECURSIVE LargestFrom(_, _, _)
LargestFrom(found, i, bestIdx) ==
    IF i > Len(found) THEN bestIdx
    ELSE IF contourArea2(found[i]) > (IF bestIdx = 0 THEN 0 ELSE contourArea2(found[bestIdx]))
         THEN LargestFrom(found, i + 1, i)
         ELSE LargestFrom(found, i + 1, bestIdx)

\* std::max_element by contourArea: the first of the largest, scanning from i
RECURSIVE MaxElementFrom(_, _, _)
MaxElementFrom(found, i, largest) ==
    IF i > Len(found) THEN largest
    ELSE IF contourArea2(found[largest]) < contourArea2(found[i])
         THEN MaxElementFrom(found, i + 1, i)
         ELSE MaxElementFrom(found, i + 1, largest)

\* lines 911-924: the component of the best score area / (1 + distance),
\* among those of at least the minimum area (0: none), scanning from i
RECURSIVE BestComponentFrom(_, _, _, _)
BestComponentFrom(cs, minContourArea, i, best) ==
    IF i > Len(cs) THEN best
    ELSE IF cs[i].area * 1000 < minContourArea
         THEN BestComponentFrom(cs, minContourArea, i + 1, best)
    ELSE IF \/ best = 0 /\ cs[i].area > 0
            \/ best # 0 /\ cs[i].area * (1000 + cs[best].dist)
                             > cs[best].area * (1000 + cs[i].dist)
         THEN BestComponentFrom(cs, minContourArea, i + 1, i)
         ELSE BestComponentFrom(cs, minContourArea, i + 1, best)

\* the edge contours of the mask of the components in `keep`: their
\* outlines in order; a component without outline leaves no edge contour
RECURSIVE OutlinesFrom(_, _, _)
OutlinesFrom(cs, keep, i) ==
    IF i > Len(cs) THEN << >>
    ELSE (IF i \in keep /\ cs[i].outline # << >> THEN <<cs[i].outline>> ELSE << >>)
         \o OutlinesFrom(cs, keep, i + 1)

\* the policy chosen with a positive manual threshold tested first
ThresholdPolicyManualFirst(p) ==
    IF p.manualThreshold > 0 THEN "manual"
    ELSE IF p.useAdaptiveThreshold THEN "adaptive"
    ELSE IF p.thresholdOffset # 0 THEN "otsu_offset"
    ELSE "otsu"

\* lines 827-842: the threshold policy of the run
ThresholdPolicy(p) ==
    IF p.useAdaptiveThreshold THEN "adaptive"
    ELSE IF p.manualThreshold > 0 THEN "manual"
    ELSE IF p.thresholdOffset # 0 THEN "otsu_offset"
    ELSE "otsu"

\* the OpenCV thresholding calls of lines 829-841 that write `binary`, in
\* order: adaptiveThreshold, threshold at a fixed value (thresh: the value,
\* or the amount added to Otsu's), threshold with THRESH_OTSU
ThresholdCall(fn, thresh) == [fn |-> fn, thresh |-> thresh]
Binarize(p) ==
    CASE ThresholdPolicy(p) = "adaptive" -> <<ThresholdCall("adaptiveThreshold", 0)>>
      [] ThresholdPolicy(p) = "manual" ->
            <<ThresholdCall("threshold_fixed", p.manualThreshold)>>
      [] ThresholdPolicy(p) = "otsu_offset" ->
            <<ThresholdCall("threshold_otsu", 0),
              ThresholdCall("threshold_otsu_plus", p.thresholdOffset)>>
      [] OTHER -> <<ThresholdCall("threshold_otsu", 0)>>

\* findObjectContour, from the labelled components on (lines 868-981)
findObjectContour(f, p) ==
    LET cs == f.components
        validComponents == {i \in 1 .. Len(cs) : cs[i].area * 1000 >= p.minContourArea}
        bestComponent == BestComponentFrom(cs, p.minContourArea, 1, 0)
        selected == IF p.mergeNearbyContours THEN validComponents ELSE {bestComponent}
        found == OutlinesFrom(cs, selected, 1)
    IN  IF Len(cs) + 1 < 2 THEN Throw("runtime_error", MsgNoComponents)
        ELSE IF p.mergeNearbyContours /\ validComponents = {}
             THEN Throw("runtime_error", MsgNoValidComps)
        ELSE IF ~p.mergeNearbyContours /\ bestComponent = 0
             THEN Throw("runtime_error", MsgNoValidComp)
        ELSE IF found = << >> THEN Throw("runtime_error", MsgNoEdges)
        ELSE Value(NoMat, found[MaxElementFrom(found, 1, 1)])

\* the debug images findObjectContour pushes before it can throw, and after
ObjectDebugBefore(p) ==
    <<"object_preprocessed", "object_thresholded">>
    \o (IF p.disableMorphology THEN << >> ELSE <<"object_morphology">>)
ObjectDebugAfter == <<"object_component", "object_edges">>

\* the re-extraction handing back the empty result of findContours
ReExtractEmpty(contour, found) ==
    IF found = << >> THEN << >>
    ELSE IF LargestFrom(found, 1, 0) = 0 THEN << >>
    ELSE found[LargestFrom(found, 1, 0)]

\* the re-extraction after a morphological operation: the largest contour
\* found on the mask, the input contour when there is none
ReExtract(contour, found) ==
    IF found = << >> THEN contour
    ELSE IF LargestFrom(found, 1, 0) = 0 THEN contour
    ELSE found[LargestFrom(found, 1, 0)]

smoothContourMorphological(contour, f) == ReExtract(contour, f.morphed)

smoothContourCurvatureBased(contour, f) == f.smoothed

\* smoothContour testing only whether smoothing is enabled
smoothContourIgnoringAmount(contour, smoothingMM, p, f) ==
    IF ~p.enableSmoothing THEN contour
    ELSE IF p.smoothingMode = 0 THEN smoothContourMorphological(contour, f)
    ELSE smoothContourCurvatureBased(contour, f)

smoothContour(contour, smoothingMM, p, f) ==
    IF smoothingMM <= 0 \/ ~p.enableSmoothing THEN contour
    ELSE IF p.smoothingMode = 0 THEN smoothContourMorphological(contour, f)
    ELSE smoothContourCurvatureBased(contour, f)

dilateContour(contour, dilationMM, f) ==
    IF dilationMM <= 0 THEN contour
    ELSE ReExtract(contour, f.dilated)

\* validateContour without the perimeter check
validateContourVerticesOnly(contour, p) ==
    IF Len(contour) < 3 THEN FALSE ELSE TRUE

validateContour(contour, p) ==
    IF Len(contour) < 3 THEN FALSE
    ELSE IF arcLength(contour, TRUE) * 1000 < p.minPerimeter THEN FALSE
    ELSE TRUE

(***************************************************************************)
(* ImageProcessor::processImageToStage, one step per stage                 *)
(***************************************************************************)
Invoke(fns, st) == comps \o [i \in 1 .. Len(fns) |-> [fn |-> fns[i], stage |-> st]]

\* ExitPc with no catch clause in the C API: the exception leaves the call
ExitPcUncaught(r) ==
    IF r.kind = "throw" THEN "cpp_throw"
    ELSE IF IsCApi THEN "api_convert"
    ELSE IF call.api = "cpp_stage" THEN "cpp_return" ELSE "cpp_flush"

\* where control goes when processImageToStage returns or throws r
ExitPc(r) ==
    IF IsCApi THEN (IF r.kind = "throw" THEN "api_catch" ELSE "api_convert")
    ELSE (IF r.kind = "throw" THEN "cpp_throw"
          ELSE IF call.api = "cpp_stage" THEN "cpp_return" ELSE "cpp_flush")

\* ReturnAt without the early return at ObjectDetected
ReturnAtFallThrough(s, r, next) ==
    IF call.target = s /\ s # PRINT_TRACE_STAGE_OBJECT_DETECTED
    THEN ret' = r /\ pc' = ExitPc(r)
    ELSE ret' = ret /\ pc' = next

\* ReturnAt validating every contour it returns
ReturnAtValidated(s, r, next) ==
    IF call.target = s
    THEN IF s < PRINT_TRACE_STAGE_OBJECT_DETECTED \/ validateContour(r.contour, cpp_params)
         THEN ret' = r /\ pc' = ExitPc(r)
         ELSE /\ ret' = Throw("runtime_error", MsgValidation)
              /\ pc' = ExitPc(Throw("runtime_error", MsgValidation))
    ELSE ret' = ret /\ pc' = next

\* ReturnAt comparing with <=: a target below s returns at s
ReturnAtOrBelow(s, r, next) ==
    IF call.target <= s
    THEN ret' = r /\ pc' = ExitPc(r)
    ELSE ret' = ret /\ pc' = next

\* "if (target_stage == s) return r;", else on to the step `next`
ReturnAt(s, r, next) ==
    IF call.target = s
    THEN ret' = r /\ pc' = ExitPc(r)
    ELSE ret' = ret /\ pc' = next

\* Stage 0, lines 1776-1786
StageLoaded ==
    /\ pc = "s_load"
    /\ LET r == loadImage(call.path)
           grayImg == Mat("gray", call.path)
       IN  IF r.kind = "throw"
           THEN /\ comps' = Invoke(<<"loadImage">>, PRINT_TRACE_STAGE_LOADED)
                /\ ret' = r
                /\ pc' = ExitPc(r)
                /\ UNCHANGED <<img, cpp_params, stage, stageOut>>
           ELSE /\ comps' = Invoke(<<"loadImage", "convertToGrayscale">>,
                                   PRINT_TRACE_STAGE_LOADED)
                /\ img' = [img EXCEPT !.original = r.image, !.gray = grayImg]
                /\ cpp_params' = pushDebugImage(cpp_params, <<"original", "grayscale">>)
                /\ stage' = PRINT_TRACE_STAGE_LOADED
                /\ stageOut' = [stageOut EXCEPT ![PRINT_TRACE_STAGE_LOADED] =
                                    Value(grayImg, << >>)]
                /\ ReturnAt(PRINT_TRACE_STAGE_LOADED, Value(grayImg, << >>), "s_crop")
    /\ UNCHANGED <<runs, call, contours, progress, errors, debugged, result, out,
                   prev, vres>>

\* the calls of approximatePolygon and convexHull of lines 1799-1920
CornerCalls(f) ==
    [i \in 1 .. ApproxLoop(f, 0, 20).attempts |-> "approximatePolygon"]
    \o (IF ApproxLoop(f, 0, 20).found THEN << >>
        ELSE <<"convexHull", "approximatePolygon">>)

\* Stage 1, lines 1788-1947
StageLightboxCropped ==
    /\ pc = "s_crop"
    /\ LET f == FileAt(call.path)
           normalizedImg == Mat("normalized", call.path)
           p1 == pushDebugImage(cpp_params,
                    <<"normalized", "mask_lab", "mask_clean">>
                    \o (IF f.boundary THEN <<"paper_boundary">> ELSE << >>)
                    \o <<"boundary_edges">>)
           b == findBoundaryContour(f)
           corners == SelectCorners(f, b.contour)
           refinedCorners == refineCorners(corners, cpp_params)
           w == warpImage(img.gray, refinedCorners,
                          cpp_params.lightboxWidthPx, cpp_params.lightboxHeightPx,
                          cpp_params.lightboxWidthMM, cpp_params.lightboxHeightMM)
       IN  IF b.kind = "throw"
           THEN /\ comps' = Invoke(<<"normalizeLighting", "detectEdges",
                                     "findBoundaryContour">>,
                                   PRINT_TRACE_STAGE_LIGHTBOX_CROPPED)
                /\ img' = [img EXCEPT !.normalized = normalizedImg]
                /\ cpp_params' = p1
                /\ ret' = b
                /\ pc' = ExitPc(b)
                /\ UNCHANGED <<contours, stage, stageOut>>
           ELSE IF w.kind = "throw"
           THEN /\ comps' = Invoke(<<"normalizeLighting", "detectEdges",
                                     "findBoundaryContour">> \o CornerCalls(f)
                                   \o <<"refineCorners", "warpImage">>,
                                   PRINT_TRACE_STAGE_LIGHTBOX_CROPPED)
                /\ img' = [img EXCEPT !.normalized = normalizedImg]
                /\ contours' = [contours EXCEPT !.boundary = b.contour,
                                                !.corners = corners,
                                                !.refined = refinedCorners]
                /\ cpp_params' = p1
                /\ ret' = w
                /\ pc' = ExitPc(w)
                /\ UNCHANGED <<stage, stageOut>>
           ELSE /\ comps' = Invoke(<<"normalizeLighting", "detectEdges",
                                     "findBoundaryContour">> \o CornerCalls(f)
                                   \o <<"refineCorners", "warpImage">>,
                                   PRINT_TRACE_STAGE_LIGHTBOX_CROPPED)
                /\ img' = [img EXCEPT !.normalized = normalizedImg,
                                      !.warped = w.image,
                                      !.pixelsPerMM = w.pixelsPerMM]
                /\ contours' = [contours EXCEPT !.boundary = b.contour,
                                                !.corners = corners,
                                                !.refined = refinedCorners]
                /\ cpp_params' = pushDebugImage(p1, <<"perspective_corrected">>)
                /\ stage' = PRINT_TRACE_STAGE_LIGHTBOX_CROPPED
                /\ stageOut' = [stageOut EXCEPT ![PRINT_TRACE_STAGE_LIGHTBOX_CROPPED] =
                                    Value(w.image, << >>)]
                /\ ReturnAt(PRINT_TRACE_STAGE_LIGHTBOX_CROPPED, Value(w.image, << >>),
                            "s_normalize")
    /\ UNCHANGED <<runs, call, progress, errors, debugged, result, out, prev, vres>>

\* Stage 2, lines 1949-1955
StageNormalized ==
    /\ pc = "s_normalize"
    /\ LET warpedNormalized == Mat("warped_normalized", call.path)
       IN  /\ comps' = Invoke(<<"normalizeLighting">>, PRINT_TRACE_STAGE_NORMALIZED)
           /\ img' = [img EXCEPT !.warpedNormalized = warpedNormalized]
           /\ cpp_params' = pushDebugImage(cpp_params, <<"warped_normalized">>)
           /\ stage' = PRINT_TRACE_STAGE_NORMALIZED
           /\ stageOut' = [stageOut EXCEPT ![PRINT_TRACE_STAGE_NORMALIZED] =
                               Value(warpedNormalized, << >>)]
           /\ ReturnAt(PRINT_TRACE_STAGE_NORMALIZED, Value(warpedNormalized, << >>),
                       "s_boundary")
    /\ UNCHANGED <<runs, call, contours, progress, errors, debugged, result, out,
                   prev, vres>>

\* Stage 3 searching the boundary of the warped image once more
StageBoundaryDetectedAgain ==
    /\ pc = "s_boundary"
    /\ comps' = Invoke(<<"findBoundaryContour">>, PRINT_TRACE_STAGE_BOUNDARY_DETECTED)
    /\ stage' = PRINT_TRACE_STAGE_BOUNDARY_DETECTED
    /\ stageOut' = [stageOut EXCEPT ![PRINT_TRACE_STAGE_BOUNDARY_DETECTED] =
                        Value(img.warped, ToInt(contours.refined))]
    /\ ReturnAt(PRINT_TRACE_STAGE_BOUNDARY_DETECTED,
                Value(img.warped, ToInt(contours.refined)), "s_object")
    /\ UNCHANGED <<runs, call, cpp_params, img, contours, progress, errors,
                   debugged, result, out, prev, vres>>

\* Stage 3, lines 1957-1965: the pair exists, nothing is computed for it
StageBoundaryDetected ==
    /\ pc = "s_boundary"
    /\ stage' = PRINT_TRACE_STAGE_BOUNDARY_DETECTED
    /\ stageOut' = [stageOut EXCEPT ![PRINT_TRACE_STAGE_BOUNDARY_DETECTED] =
                        Value(img.warped, ToInt(contours.refined))]
    /\ ReturnAt(PRINT_TRACE_STAGE_BOUNDARY_DETECTED,
                Value(img.warped, ToInt(contours.refined)), "s_object")
    /\ UNCHANGED <<runs, call, cpp_params, comps, img, contours, progress, errors,
                   debugged, result, out, prev, vres>>

\* Stage 4, lines 1967-1973
StageObjectDetected ==
    /\ pc = "s_object"
    /\ LET r == findObjectContour(FileAt(call.path), cpp_params)
           p1 == pushDebugImage(cpp_params, ObjectDebugBefore(cpp_params))
       IN  /\ comps' = Invoke(<<"findObjectContour">>, PRINT_TRACE_STAGE_OBJECT_DETECTED)
           /\ img' = [img EXCEPT !.thresholds = Binarize(cpp_params)]
           /\ IF r.kind = "throw"
              THEN /\ cpp_params' = IF r.what = MsgNoEdges
                                     THEN pushDebugImage(p1, ObjectDebugAfter)
                                     ELSE p1
                   /\ ret' = r
                   /\ pc' = ExitPc(r)
                   /\ UNCHANGED <<contours, stage, stageOut>>
              ELSE /\ cpp_params' = pushDebugImage(p1, ObjectDebugAfter
                                                       \o <<"object_contour">>)
                   /\ contours' = [contours EXCEPT !.object = r.contour,
                                                   !.processed = r.contour]
                   /\ stage' = PRINT_TRACE_STAGE_OBJECT_DETECTED
                   /\ stageOut' = [stageOut EXCEPT ![PRINT_TRACE_STAGE_OBJECT_DETECTED] =
                                       Value(img.warped, r.contour)]
                   /\ ReturnAt(PRINT_TRACE_STAGE_OBJECT_DETECTED,
                               Value(img.warped, r.contour), "s_smooth")
    /\ UNCHANGED <<runs, call, progress, errors, debugged, result, out, prev, vres>>

\* smoothing applied to objectContour itself
SmoothedInPlace(processedContour) ==
    [contours EXCEPT !.object = processedContour, !.processed = processedContour]

\* lines 1976-1978: the smoothed contour goes into the copy processedContour,
\* objectContour keeps the contour stage 4 produced
SmoothedInto(processedContour) ==
    [contours EXCEPT !.processed = processedContour]

\* Stage 5, lines 1975-1984
StageSmoothed ==
    /\ pc = "s_smooth"
    /\ LET processedContour ==
               IF cpp_params.enableSmoothing
               THEN smoothContour(contours.object, cpp_params.smoothingAmountMM,
                                  cpp_params, FileAt(call.path))
               ELSE contours.object
       IN  /\ IF cpp_params.enableSmoothing
              THEN /\ comps' = Invoke(<<"smoothContour">>, PRINT_TRACE_STAGE_SMOOTHED)
                   /\ cpp_params' = pushDebugImage(cpp_params, <<"smoothed_contour">>)
              ELSE UNCHANGED <<comps, cpp_params>>
           /\ contours' = SmoothedInto(processedContour)
           /\ stage' = PRINT_TRACE_STAGE_SMOOTHED
           /\ stageOut' = [stageOut EXCEPT ![PRINT_TRACE_STAGE_SMOOTHED] =
                               Value(img.warped, processedContour)]
           /\ ReturnAt(PRINT_TRACE_STAGE_SMOOTHED, Value(img.warped, processedContour),
                       "s_dilate")
    /\ UNCHANGED <<runs, call, img, progress, errors, debugged, result, out, prev, vres>>

\* Stage 6, lines 1986-1994
StageDilated ==
    /\ pc = "s_dilate"
    /\ LET processedContour ==
               IF cpp_params.dilationAmountMM > 0
               THEN dilateContour(contours.processed, cpp_params.dilationAmountMM,
                                  FileAt(call.path))
               ELSE contours.processed
       IN  /\ IF cpp_params.dilationAmountMM > 0
              THEN /\ comps' = Invoke(<<"dilateContour">>, PRINT_TRACE_STAGE_DILATED)
                   /\ cpp_params' = pushDebugImage(cpp_params, <<"dilated_contour">>)
              ELSE UNCHANGED <<comps, cpp_params>>
           /\ contours' = [contours EXCEPT !.processed = processedContour]
           /\ stage' = PRINT_TRACE_STAGE_DILATED
           /\ stageOut' = [stageOut EXCEPT ![PRINT_TRACE_STAGE_DILATED] =
                               Value(img.warped, processedContour)]
           /\ ReturnAt(PRINT_TRACE_STAGE_DILATED, Value(img.warped, processedContour),
                       "s_final")
    /\ UNCHANGED <<runs, call, img, progress, errors, debugged, result, out, prev, vres>>

\* Stage 7, lines 1996-2006
StageFinal ==
    /\ pc = "s_final"
    /\ comps' = Invoke(<<"validateContour">>, PRINT_TRACE_STAGE_FINAL)
    /\ IF ~validateContour(contours.processed, cpp_params)
       THEN /\ ret' = Throw("runtime_error", MsgValidation)
            /\ pc' = ExitPc(Throw("runtime_error", MsgValidation))
            /\ UNCHANGED <<cpp_params, stage, stageOut, debugged>>
       ELSE LET p1 == pushDebugImage(cpp_params, <<"final_contour">>)
            IN  /\ debugged' = debugged \o Flushed(p1)
                /\ cpp_params' = flushDebugStack(p1)
                /\ stage' = PRINT_TRACE_STAGE_FINAL
                /\ stageOut' = [stageOut EXCEPT ![PRINT_TRACE_STAGE_FINAL] =
                                    Value(img.warped, contours.processed)]
                /\ ret' = Value(img.warped, contours.processed)
                /\ pc' = ExitPc(Value(img.warped, contours.processed))
    /\ UNCHANGED <<runs, call, img, contours, progress, errors, result, out, prev, vres>>

(***************************************************************************)
(* After the pipeline                                                      *)
(***************************************************************************)
\* convertMatToImageData: RGBA copy of a non-empty Mat
convertMatToImageData(mat) ==
    IF mat = NoMat THEN NullImage
    ELSE [kind |-> "rgba", of |-> mat, channels |-> 4]

\* convertContour: the points as doubles
convertContour(cpp_contour, pixels_per_mm) ==
    [kind |-> "contour",
     points |-> IF Len(cpp_contour) > 0 THEN ToFloat(cpp_contour) ELSE << >>,
     point_count |-> Len(cpp_contour), pixels_per_mm |-> pixels_per_mm]

\* lines 483-496: processImageToStage returned
ApiConvert ==
    /\ pc = "api_convert"
    /\ progress' = Progress(Progress(progress, 800), 1000)
    /\ out' = [image |-> convertMatToImageData(ret.image),
               contour |-> IF call.contour /\ ret.contour # << >>
                           THEN convertContour(ret.contour,
                                    PerMM(cpp_params.warpSize,
                                          cpp_params.realWorldSizeMM))
                           ELSE out.contour]
    /\ result' = Returned(PRINT_TRACE_SUCCESS)
    /\ pc' = AfterToStage(PRINT_TRACE_SUCCESS)
    /\ UNCHANGED <<runs, call, cpp_params, stage, comps, img, contours, stageOut,
                   ret, errors, debugged, prev, vres>>

\* lines 498-504: processImageToStage threw
ApiCatch ==
    /\ pc = "api_catch"
    /\ errors' = Report(handleExceptionCallbackCode)
    /\ result' = Returned(handleException(ret.what))
    /\ pc' = AfterToStage(handleException(ret.what))
    /\ UNCHANGED <<runs, call, cpp_params, stage, comps, img, contours, stageOut,
                   ret, progress, debugged, out, prev, vres>>

\* print_trace_save_contour_to_dxf on the contour of the run; whether the
\* file can be written is the file system's choice
DxfSave(writable) ==
    /\ pc = "dxf_save"
    /\ LET code == IF out.contour.kind # "contour" \/ out.contour.point_count <= 0
                   THEN PRINT_TRACE_ERROR_INVALID_INPUT
                   ELSE IF ~writable THEN PRINT_TRACE_ERROR_DXF_WRITE_FAILED
                   ELSE PRINT_TRACE_SUCCESS
       IN  /\ errors' = IF code # PRINT_TRACE_SUCCESS THEN Report(code) ELSE errors
           /\ result' = Returned(code)
    /\ pc' = "idle"
    /\ UNCHANGED <<runs, call, cpp_params, stage, comps, img, contours, stageOut,
                   ret, progress, debugged, out, prev, vres>>

\* ImageProcessor::processImageToContour, lines 1755-1761
CppFlush ==
    /\ pc = "cpp_flush"
    /\ debugged' = debugged \o Flushed(cpp_params)
    /\ cpp_params' = flushDebugStack(cpp_params)
    /\ out' = [out EXCEPT !.contour = ret.contour]
    /\ result' = Returned(PRINT_TRACE_SUCCESS)
    /\ pc' = "idle"
    /\ UNCHANGED <<runs, call, stage, comps, img, contours, stageOut, ret, progress,
                   errors, prev, vres>>

\* processImageToStage called by a C++ caller returned its pair
CppReturn ==
    /\ pc = "cpp_return"
    /\ out' = [image |-> ret.image, contour |-> ret.contour]
    /\ result' = Returned(PRINT_TRACE_SUCCESS)
    /\ pc' = "idle"
    /\ UNCHANGED <<runs, call, cpp_params, stage, comps, img, contours, stageOut,
                   ret, progress, errors, debugged, prev, vres>>

\* the exception leaves processImageToContour: nothing is flushed
CppThrow ==
    /\ pc = "cpp_throw"
    /\ result' = Thrown
    /\ pc' = "idle"
    /\ UNCHANGED <<runs, call, cpp_params, stage, comps, img, contours, stageOut,
                   ret, progress, errors, debugged, out, prev, vres>>

\* the caller: any call on a fresh input, then further calls on that input
NewCall ==
    /\ pc = "idle"
    /\ runs < MaxRuns
    /\ \E path \in (IF runs = 0 THEN Paths ELSE {call.path}),
          params \in (IF runs = 0 THEN CallParams ELSE {call.params}),
          shape \in CallShapes :
            Call(path, params, shape)

Next ==
    \/ NewCall
    \/ DxfCheckInput
    \/ ApiCheckInput
    \/ ApiCheckFile
    \/ ApiValidate
    \/ ApiBegin
    \/ StageLoaded
    \/ StageLightboxCropped
    \/ StageNormalized
    \/ StageBoundaryDetected
    \/ StageObjectDetected
    \/ StageSmoothed
    \/ StageDilated
    \/ StageFinal
    \/ ApiConvert
    \/ ApiCatch
    \/ \E writable \in BOOLEAN : DxfSave(writable)
    \/ CppFlush
    \/ CppReturn
    \/ CppThrow

Spec == Init /\ [][Next]_vars

(***************************************************************************)
(* Properties                                                              *)
(***************************************************************************)
Invoked(fn) == \E i \in 1 .. Len(comps) : comps[i].fn = fn

\* the components invoked for the transition into stage s, in order
RECURSIVE FnsFrom(_, _)
FnsFrom(s, i) ==
    IF i > Len(comps) THEN << >>
    ELSE (IF comps[i].stage = s THEN <<comps[i].fn>> ELSE << >>) \o FnsFrom(s, i + 1)
FnsOf(s) == FnsFrom(s, 1)

InPipeline == pc \in {"s_load", "s_crop", "s_normalize", "s_boundary", "s_object",
                      "s_smooth", "s_dilate", "s_final"}
Succeeded == pc = "idle" /\ result = Returned(PRINT_TRACE_SUCCESS)
ValidationFailed == ret.kind = "throw" /\ ret.what = MsgValidation
TooFewVertices(c) == Len(c) < 3
PerimeterBelow(c) == arcLength(c, TRUE) * 1000 < cpp_params.minPerimeter

\* C1: a run with a target stage s from Loaded to Dilated never produces the
\* output of a stage after s, is out of the pipeline once stage s's output
\* exists, returns exactly that output, and never invokes the work of a later
\* stage: no object extraction when s < ObjectDetected, no smoothing when
\* s < Smoothed, no dilation when s < Dilated, no validation at all.
C1_EarlyReturn ==
    (call.api # "none" /\ call.target < PRINT_TRACE_STAGE_FINAL) =>
        /\ stage <= call.target
        /\ stage = call.target => ~InPipeline /\ ret = stageOut[call.target]
        /\ ret.kind = "value" => stage = call.target
        /\ call.target < PRINT_TRACE_STAGE_OBJECT_DETECTED => ~Invoked("findObjectContour")
        /\ call.target < PRINT_TRACE_STAGE_SMOOTHED => ~Invoked("smoothContour")
        /\ call.target < PRINT_TRACE_STAGE_DILATED => ~Invoked("dilateContour")
        /\ ~Invoked("validateContour")

\* a run to ObjectDetected that succeeded although smoothing and dilation
\* are both configured
C1_Witness ==
    /\ Succeeded
    /\ call.target = PRINT_TRACE_STAGE_OBJECT_DETECTED
    /\ cpp_params.enableSmoothing
    /\ cpp_params.dilationAmountMM > 0
    /\ Invoked("findObjectContour")

\* the pair stage s holds in the variables of processImageToStage
LiveOutput(s) ==
    CASE s = PRINT_TRACE_STAGE_LOADED -> Value(img.gray, << >>)
      [] s = PRINT_TRACE_STAGE_LIGHTBOX_CROPPED -> Value(img.warped, << >>)
      [] s = PRINT_TRACE_STAGE_NORMALIZED -> Value(img.warpedNormalized, << >>)
      [] s = PRINT_TRACE_STAGE_BOUNDARY_DETECTED ->
            Value(img.warped, ToInt(contours.refined))
      [] s = PRINT_TRACE_STAGE_OBJECT_DETECTED -> Value(img.warped, contours.object)

CApis == {"to_stage", "to_contour", "to_dxf"}

\* C2: on the same image and parameters, the pair a run returned when it
\* stopped at stage s is the pair stage s produces inside a later run that
\* goes on to a stage t >= s (ObjectDetected inside a run to Final included),
\* and while a run goes on, the pair of each stage up to ObjectDetected stays
\* in the run's variables as it was produced.
C2_StagedOutputsAgree ==
    /\ \A s \in PRINT_TRACE_STAGE_LOADED .. PRINT_TRACE_STAGE_OBJECT_DETECTED :
          stage >= s => /\ stageOut[s].kind = "value"
                        /\ LiveOutput(s) = stageOut[s]
    /\ (/\ prev.api \in CApis
        /\ call.api \in CApis
        /\ prev.result = Returned(PRINT_TRACE_SUCCESS)
        /\ prev.ret.kind = "value"
        /\ stage >= prev.target) => stageOut[prev.target] = prev.ret

\* a run to Final whose smoothing and dilation changed the contour, after a
\* run on the same input that stopped at ObjectDetected
C2_Witness ==
    /\ Succeeded
    /\ call.api \in CApis
    /\ call.target = PRINT_TRACE_STAGE_FINAL
    /\ prev.api = "to_stage"
    /\ prev.target = PRINT_TRACE_STAGE_OBJECT_DETECTED
    /\ prev.result = Returned(PRINT_TRACE_SUCCESS)
    /\ Invoked("smoothContour")
    /\ ret.contour # prev.ret.contour

\* the stages whose output exists are those up to the last one produced
StagesInOrder ==
    /\ stage \in -1 .. PRINT_TRACE_STAGE_FINAL
    /\ \A s \in Stages : stageOut[s].kind = "value" <=> s <= stage

\* a step changes the stage only to the next one, or to none on a new call
StageStep ==
    stage' # stage => \/ stage' = stage + 1
                      \/ pc = "idle" /\ stage' = -1

\* what the code invokes for the transition into stage s
ExpectedFns(s) ==
    CASE s = PRINT_TRACE_STAGE_LOADED -> <<"loadImage", "convertToGrayscale">>
      [] s = PRINT_TRACE_STAGE_LIGHTBOX_CROPPED ->
            <<"normalizeLighting", "detectEdges", "findBoundaryContour">>
            \o CornerCalls(FileAt(call.path)) \o <<"refineCorners", "warpImage">>
      [] s = PRINT_TRACE_STAGE_NORMALIZED -> <<"normalizeLighting">>
      [] s = PRINT_TRACE_STAGE_BOUNDARY_DETECTED -> << >>
      [] s = PRINT_TRACE_STAGE_OBJECT_DETECTED -> <<"findObjectContour">>
      [] s = PRINT_TRACE_STAGE_SMOOTHED ->
            IF cpp_params.enableSmoothing THEN <<"smoothContour">> ELSE << >>
      [] s = PRINT_TRACE_STAGE_DILATED ->
            IF cpp_params.dilationAmountMM > 0 THEN <<"dilateContour">> ELSE << >>
      [] s = PRINT_TRACE_STAGE_FINAL -> <<"validateContour">>

\* C3 (as amended): a run passes through the stages in the order Loaded ..
\* Final only, one stage at a time, never back and never twice. The
\* transitions into Normalized, ObjectDetected and Final invoke exactly one
\* component each, those into Smoothed and Dilated one when enabled and none
\* when disabled, the one into BoundaryDetected none, and the one into
\* LightboxCropped lighting normalisation, edge detection, the boundary
\* contour search, 1 to 11 polygon approximations (with a convex hull after
\* 10 failed ones), corner refinement and the warp.
C3_OrderAndComponents ==
    /\ [](StagesInOrder
          /\ \A s \in Stages : s <= stage => FnsOf(s) = ExpectedFns(s))
    /\ [][StageStep]_vars

\* a run that reached Final with smoothing off and dilation on, on an image
\* whose boundary took all 10 approximations and the hull fallback
C3_Witness ==
    /\ Succeeded
    /\ stage = PRINT_TRACE_STAGE_FINAL
    /\ ~cpp_params.enableSmoothing
    /\ cpp_params.dilationAmountMM > 0
    /\ Len(FnsOf(PRINT_TRACE_STAGE_LIGHTBOX_CROPPED)) = 17

\* C3 as stated: the stages come in order, and each transition between
\* consecutive stages invokes exactly one component, none for Smoothed and
\* Dilated when disabled.
C3_OneComponentPerTransition ==
    /\ StagesInOrder
    /\ \A s \in PRINT_TRACE_STAGE_LIGHTBOX_CROPPED .. PRINT_TRACE_STAGE_FINAL :
          s <= stage =>
            Len(FnsOf(s)) =
                IF \/ s = PRINT_TRACE_STAGE_SMOOTHED /\ ~cpp_params.enableSmoothing
                   \/ s = PRINT_TRACE_STAGE_DILATED /\ ~(cpp_params.dilationAmountMM > 0)
                THEN 0 ELSE 1

\* C4: only a run with target Final ends in "Final contour validation
\* failed"; a run with a target from ObjectDetected to Dilated returns the
\* contour of its stage as a successful result, whatever its vertex count and
\* perimeter, and reports no error.
C4_ValidationOnlyAtFinal ==
    /\ ValidationFailed => call.target = PRINT_TRACE_STAGE_FINAL
    /\ (/\ call.api # "none"
        /\ call.target \in PRINT_TRACE_STAGE_OBJECT_DETECTED .. PRINT_TRACE_STAGE_DILATED
        /\ stage = call.target) =>
            /\ ret = Value(img.warped, contours.processed)
            /\ errors = << >>
            /\ pc = "idle" => result = Returned(PRINT_TRACE_SUCCESS)

\* a successful run to Dilated whose contour has 2 vertices
C4_Witness ==
    /\ Succeeded
    /\ call.target = PRINT_TRACE_STAGE_DILATED
    /\ Invoked("dilateContour")
    /\ TooFewVertices(ret.contour)
    /\ PerimeterBelow(ret.contour)

\* C5: the contour a run to Final returns has at least 3 vertices and a
\* closed perimeter of at least minPerimeter, and so has the contour the C
\* API hands out; a run to Final whose contour after the Dilated stage
\* violates either bound ends in the validation error and in a failure code.
C5_FinalContourValid ==
    /\ (call.target = PRINT_TRACE_STAGE_FINAL /\ ret.kind = "value") =>
            ~TooFewVertices(ret.contour) /\ ~PerimeterBelow(ret.contour)
    /\ (Succeeded /\ IsCApi /\ call.target = PRINT_TRACE_STAGE_FINAL /\ call.contour) =>
            /\ out.contour.kind = "contour"
            /\ out.contour.point_count = Len(ret.contour)
            /\ out.contour.point_count >= 3
    /\ (/\ call.api # "none"
        /\ call.target = PRINT_TRACE_STAGE_FINAL
        /\ stage >= PRINT_TRACE_STAGE_DILATED
        /\ pc # "s_final"
        /\ TooFewVertices(contours.processed) \/ PerimeterBelow(contours.processed)) =>
            /\ ValidationFailed
            /\ stage = PRINT_TRACE_STAGE_DILATED
            /\ pc = "idle" => result \in {Returned(PRINT_TRACE_ERROR_PROCESSING_FAILED),
                                          Thrown}

\* print_trace_process_image_to_contour succeeded with a contour whose
\* perimeter is exactly minPerimeter
C5_Witness ==
    /\ Succeeded
    /\ call.api = "to_contour"
    /\ Len(ret.contour) = 4
    /\ arcLength(ret.contour, TRUE) * 1000 = cpp_params.minPerimeter

\* boundary detection failed: findBoundaryContour found no contour. (The
\* corner search cannot fail: its last fallback always yields 4 corners.)
BoundaryDetectionFailed == ret.kind = "throw" /\ ret.what = MsgNoBoundary

\* C6 as stated: a C API call whose boundary detection failed returns
\* PRINT_TRACE_ERROR_NO_BOUNDARY, and no stage after boundary detection ran.
C6_NoBoundaryKind ==
    (IsCApi /\ pc = "idle" /\ BoundaryDetectionFailed) =>
        /\ result = Returned(PRINT_TRACE_ERROR_NO_BOUNDARY)
        /\ stage = PRINT_TRACE_STAGE_LOADED
        /\ ~Invoked("warpImage")
        /\ ~Invoked("findObjectContour")

\* object extraction found no foreground component, or none of at least the
\* minimum area
ObjectNotFound ==
    /\ ret.kind = "throw"
    /\ ret.what \in {MsgNoComponents, MsgNoValidComps, MsgNoValidComp}

\* C7 as stated: a C API call whose object extraction found no component
\* passing the minimum-area filter, or none at all, returns
\* PRINT_TRACE_ERROR_NO_OBJECT.
C7_NoObjectKind ==
    (IsCApi /\ pc = "idle" /\ ObjectNotFound) =>
        result = Returned(PRINT_TRACE_ERROR_NO_OBJECT)

NoWorkDone == comps = << >> /\ stage = -1 /\ img = NoImg /\ stageOut = NoStageOut

\* C8 as stated: a call of one of the three C entry points with a null or an
\* empty input path returns PRINT_TRACE_ERROR_INVALID_INPUT, with no image
\* loaded and no stage run.
C8_NullOrEmptyPathInvalidInput ==
    (IsCApi /\ call.path \in {"null", ""}) =>
        /\ NoWorkDone
        /\ pc = "idle" => result = Returned(PRINT_TRACE_ERROR_INVALID_INPUT)

\* the struct print_trace_process_to_stage validates for the call's params
ValidatedParams ==
    IF call.params = NullParams THEN GetDefaultParams(HeaderDefaults) ELSE call.params
ParamsRejected == print_trace_validate_params(ValidatedParams) # PRINT_TRACE_SUCCESS

\* the checks print_trace_process_to_stage makes before it validates
InputsPass ==
    call.path # "null" /\ call.result_image /\ FileAt(call.path).exists

\* C9 (as amended): a C API call whose params fail validation loads no image,
\* runs no stage and reports no progress, and when its input path and result
\* image pointers are non-null and the input file can be opened it returns
\* PRINT_TRACE_ERROR_INVALID_PARAMETERS and reports that code to the error
\* callback. A null params pointer stands for the defaults: it is rejected
\* exactly when the defaults are, and the pipeline runs on the defaults.
C9_RejectedBeforeProcessing ==
    IsCApi =>
        /\ ParamsRejected =>
              /\ NoWorkDone
              /\ progress = << >>
              /\ (pc = "idle" /\ InputsPass) =>
                    /\ result = Returned(PRINT_TRACE_ERROR_INVALID_PARAMETERS)
                    /\ errors = IF call.error_callback
                                THEN <<PRINT_TRACE_ERROR_INVALID_PARAMETERS>>
                                ELSE << >>
        /\ ~ParamsRejected =>
              /\ result # Returned(PRINT_TRACE_ERROR_INVALID_PARAMETERS)
              /\ InPipeline =>
                    [cpp_params EXCEPT !.debugImageStack = << >>]
                        = convertParams(ValidatedParams)

\* a call with an openable file and out-of-range params, rejected
C9_Witness ==
    /\ IsCApi
    /\ pc = "idle"
    /\ InputsPass
    /\ call.params # NullParams
    /\ ParamsRejected
    /\ result = Returned(PRINT_TRACE_ERROR_INVALID_PARAMETERS)
    /\ errors = <<PRINT_TRACE_ERROR_INVALID_PARAMETERS>>

\* C9 as stated: a C API call whose params fail validation returns
\* PRINT_TRACE_ERROR_INVALID_PARAMETERS, with no image loaded, no stage run
\* and no progress reported.
C9_AlwaysInvalidParameters ==
    (IsCApi /\ ParamsRejected) =>
        /\ NoWorkDone
        /\ progress = << >>
        /\ pc = "idle" => result = Returned(PRINT_TRACE_ERROR_INVALID_PARAMETERS)

(***************************************************************************)
(* print_trace_validate_params called on its own: parameter structs that   *)
(* differ from a valid one in one field, set at or next to a bound of the  *)
(* field's range.                                                          *)
(***************************************************************************)
\* the documented numeric fields of PrintTraceParams and their ranges
DocumentedRanges ==
    [f \in (DOMAIN HeaderRanges) \cup (RangedFields \ {"warp_size", "real_world_size_mm"})
        |-> IF f \in DOMAIN HeaderRanges THEN HeaderRanges[f] ELSE Ranges[f]]

ValidatedFields == RangedFields \cup DOMAIN HeaderRanges
RangeOf(f) == IF f \in RangedFields THEN Ranges[f] ELSE HeaderRanges[f]

\* the int32_t fields; the others are doubles, kept in thousandths
IntFields == {"warp_size", "lightbox_width_px", "lightbox_height_px",
              "clahe_tile_size", "morph_kernel_size", "corner_win_size"}
Unit(f) == IF f \in IntFields THEN 1 ELSE 1000

\* a valid struct to vary field f in: the other edge threshold is moved out
\* of the way, so that lower < upper holds for every value in f's range
ValidBase(f) ==
    IF f = "canny_lower"
    THEN [DefaultParams EXCEPT !.canny_upper = Ranges.canny_upper[2]]
    ELSE IF f = "canny_upper"
    THEN [DefaultParams EXCEPT !.canny_lower = Ranges.canny_lower[1]]
    ELSE DefaultParams

Vary(f, v) == [ValidBase(f) EXCEPT ![f] = v]

NearBounds(f) ==
    {RangeOf(f)[1] - Unit(f), RangeOf(f)[1] - 1, RangeOf(f)[1],
     RangeOf(f)[2], RangeOf(f)[2] + 1, RangeOf(f)[2] + Unit(f)}

ValidateInputs ==
    {NullParams}
    \cup UNION { { Vary(f, v) : v \in NearBounds(f) } : f \in ValidatedFields }
    \cup { [DefaultParams EXCEPT !.canny_aperture = a] : a \in 0 .. 9 }
    \cup { [DefaultParams EXCEPT !.canny_lower = lo, !.canny_upper = up] :
             lo \in {50000, 100000, 150000, 200000},
             up \in {50000, 100000, 150000, 200000} }

InitValidate ==
    /\ pc = "validate"
    /\ runs = 0
    /\ \E p \in ValidateInputs :
          call = [NoCall EXCEPT !.api = "validate", !.params = p]
    /\ cpp_params = ProcessingParams
    /\ stage = -1
    /\ comps = << >>
    /\ img = NoImg
    /\ contours = NoContours
    /\ stageOut = NoStageOut
    /\ ret = NoRet
    /\ progress = << >>
    /\ errors = << >>
    /\ debugged = << >>
    /\ result = NoResult
    /\ out = NoOut
    /\ prev = NoPrev
    /\ vres = NoResult

Validate ==
    /\ pc = "validate"
    /\ vres' = Returned(print_trace_validate_params(call.params))
    /\ pc' = "validated"
    /\ UNCHANGED <<runs, call, cpp_params, stage, comps, img, contours, stageOut,
                   ret, progress, errors, debugged, result, out, prev>>

NextValidate == Validate

SpecValidate == InitValidate /\ [][NextValidate]_vars

Accepted == vres = Returned(PRINT_TRACE_SUCCESS)
Rejected == vres = Returned(PRINT_TRACE_ERROR_INVALID_PARAMETERS)

\* C10 as stated: with all other parameters valid, every documented numeric
\* parameter is accepted at both ends of its range and rejected one unit
\* below and one unit above it; the aperture is accepted exactly for 3, 5 and
\* 7; a lower edge threshold not below the upper one is rejected.
C10_RangeBoundsEnforced ==
    pc = "validated" =>
        /\ \A f \in DOMAIN DocumentedRanges :
              /\ call.params \in {Vary(f, DocumentedRanges[f][1]),
                                  Vary(f, DocumentedRanges[f][2])} => Accepted
              /\ call.params \in {Vary(f, DocumentedRanges[f][1] - Unit(f)),
                                  Vary(f, DocumentedRanges[f][2] + Unit(f))} => Rejected
        /\ \A a \in 0 .. 9 :
              call.params = [DefaultParams EXCEPT !.canny_aperture = a] =>
                    IF a \in {3, 5, 7} THEN Accepted ELSE Rejected
        /\ (call.params # NullParams /\ call.params.canny_lower >= call.params.canny_upper)
              => Rejected

(***************************************************************************)
(* Smoothing mode                                                          *)
(***************************************************************************)
\* the caller's PrintTraceParams of a C API call, when not a null pointer
GivenParams == IsCApi /\ call.params # NullParams

\* C11 as stated: a C API call whose smoothing_mode is neither 0 nor 1 is
\* rejected with PRINT_TRACE_ERROR_INVALID_PARAMETERS once its pointers and
\* its file have been checked, and never enters the pipeline.
C11_SmoothingModeRejected ==
    (GivenParams /\ call.params.smoothing_mode \notin {0, 1}) =>
        /\ ~InPipeline
        /\ stage = -1
        /\ pc \notin {"api_begin", "api_convert", "api_catch", "dxf_save"}

\* the algorithm smoothContour runs under the ProcessingParams p
AlgorithmOf(p) == IF p.smoothingMode = 0 THEN "morphological" ELSE "curvature-based"

\* C12 as stated: once the Smoothed stage of a C API call with smoothing
\* enabled has run, the algorithm run is the one of the caller's
\* smoothing_mode, and the Smoothed contour is that algorithm's result on the
\* ObjectDetected contour.
C12_SelectedAlgorithmRuns ==
    (/\ GivenParams
     /\ call.params.smoothing_mode \in {0, 1}
     /\ call.params.enable_smoothing
     /\ stage >= PRINT_TRACE_STAGE_SMOOTHED) =>
        /\ Invoked("smoothContour")
        /\ AlgorithmOf(cpp_params) =
              (IF call.params.smoothing_mode = 0 THEN "morphological"
               ELSE "curvature-based")
        /\ stageOut[PRINT_TRACE_STAGE_SMOOTHED].contour =
              (IF call.params.smoothing_mode = 0
               THEN smoothContourMorphological(
                        stageOut[PRINT_TRACE_STAGE_OBJECT_DETECTED].contour,
                        FileAt(call.path))
               ELSE smoothContourCurvatureBased(
                        stageOut[PRINT_TRACE_STAGE_OBJECT_DETECTED].contour,
                        FileAt(call.path)))

(***************************************************************************)
(* Corner ordering: ImageProcessor::orderCorners and the ordering inside   *)
(* warpImage, applied to every sequence of 4 points of a small grid.       *)
(***************************************************************************)
\* the coordinates of the grid are 0 .. GridMax
GridMax == 2

GridPoints == (0 .. GridMax) \X (0 .. GridMax)
CornerInputs == GridPoints \X GridPoints \X GridPoints \X GridPoints

SumOf(pt) == pt[1] + pt[2]
DiffOf(pt) == pt[2] - pt[1]

\* operator< of std::pair<float, int>
PairLess(a, b) == a[1] < b[1] \/ (a[1] = b[1] /\ a[2] < b[2])

\* element k (from 0) of the sorted vector of the pairs {key, index}: the
\* indices are distinct, so it is the pair with exactly k pairs below it
SortedAt(keys, k) ==
    CHOOSE i \in 1 .. Len(keys) :
        Cardinality({j \in 1 .. Len(keys) :
                        PairLess(<<keys[j], j>>, <<keys[i], i>>)}) = k

\* orderCorners with top-right and bottom-left taken from the wrong ends
orderCornersSwapped(corners) ==
    IF Len(corners) # 4 THEN corners
    ELSE LET sums == [i \in 1 .. 4 |-> SumOf(corners[i])]
             diffs == [i \in 1 .. 4 |-> DiffOf(corners[i])]
         IN  << corners[SortedAt(sums, 0)], corners[SortedAt(diffs, 3)],
                corners[SortedAt(sums, 3)], corners[SortedAt(diffs, 0)] >>

orderCorners(corners) ==
    IF Len(corners) # 4 THEN corners
    ELSE LET sums == [i \in 1 .. 4 |-> SumOf(corners[i])]
             diffs == [i \in 1 .. 4 |-> DiffOf(corners[i])]
         IN  << corners[SortedAt(sums, 0)], corners[SortedAt(diffs, 0)],
                corners[SortedAt(sums, 3)], corners[SortedAt(diffs, 3)] >>

\* std::min_element and std::max_element under a comparison by key: the
\* first element no other is below, the first element below no other
min_element(keys) ==
    CHOOSE i \in 1 .. Len(keys) :
        /\ \A j \in 1 .. Len(keys) : ~(keys[j] < keys[i])
        /\ \A h \in 1 .. (i - 1) : \E j \in 1 .. Len(keys) : keys[j] < keys[h]
max_element(keys) ==
    CHOOSE i \in 1 .. Len(keys) :
        /\ \A j \in 1 .. Len(keys) : ~(keys[i] < keys[j])
        /\ \A h \in 1 .. (i - 1) : \E j \in 1 .. Len(keys) : keys[h] < keys[j]

\* warpImage, lines 1657-1675: orderedCorners
warpOrderedCorners(corners) ==
    LET sums == [i \in 1 .. Len(corners) |-> SumOf(corners[i])]
        diffs == [i \in 1 .. Len(corners) |-> DiffOf(corners[i])]
    IN  << corners[min_element(sums)], corners[min_element(diffs)],
           corners[max_element(sums)], corners[max_element(diffs)] >>

InitOrder ==
    /\ pc = "order"
    /\ runs = 0
    /\ call = [NoCall EXCEPT !.api = "order"]
    /\ cpp_params = ProcessingParams
    /\ stage = -1
    /\ comps = << >>
    /\ img = NoImg
    /\ \E c \in CornerInputs : contours = [NoContours EXCEPT !.corners = c]
    /\ stageOut = NoStageOut
    /\ ret = NoRet
    /\ progress = << >>
    /\ errors = << >>
    /\ debugged = << >>
    /\ result = NoResult
    /\ out = NoOut
    /\ prev = NoPrev
    /\ vres = NoResult

Order ==
    /\ pc = "order"
    /\ ret' = [kind |-> "corners", orderCorners |-> orderCorners(contours.corners),
               warpImage |-> warpOrderedCorners(contours.corners)]
    /\ pc' = "ordered"
    /\ UNCHANGED <<runs, call, cpp_params, stage, comps, img, contours, stageOut,
                   progress, errors, debugged, result, out, prev, vres>>

NextOrder == Order

SpecOrder == InitOrder /\ [][NextOrder]_vars

\* the points of c at which key takes its least and its greatest value
AtMin(c, key(_)) == {i \in 1 .. Len(c) : \A j \in 1 .. Len(c) : key(c[i]) <= key(c[j])}
AtMax(c, key(_)) == {i \in 1 .. Len(c) : \A j \in 1 .. Len(c) : key(c[i]) >= key(c[j])}

\* each of the four extremes is attained by a single point
DistinctExtremes(c) ==
    /\ Cardinality(AtMin(c, SumOf)) = 1
    /\ Cardinality(AtMax(c, SumOf)) = 1
    /\ Cardinality(AtMin(c, DiffOf)) = 1
    /\ Cardinality(AtMax(c, DiffOf)) = 1

\* TL, TR, BR, BL by geometric position
ByPosition(c) ==
    << c[CHOOSE i \in AtMin(c, SumOf) : TRUE], c[CHOOSE i \in AtMin(c, DiffOf) : TRUE],
       c[CHOOSE i \in AtMax(c, SumOf) : TRUE], c[CHOOSE i \in AtMax(c, DiffOf) : TRUE] >>

Permuted(c, perm) == [i \in 1 .. 4 |-> c[perm[i]]]
Perms4 == {perm \in [1 .. 4 -> 1 .. 4] : \A i, j \in 1 .. 4 : perm[i] = perm[j] => i = j}

\* C13: for 4 corners whose least and greatest x+y and y-x are each attained
\* by a single point, orderCorners and the ordering inside warpImage both
\* return <<the point of least x+y, of least y-x, of greatest x+y, of
\* greatest y-x>>, and return that same sequence for each of the 24
\* permutations of the input.
C13_OrderingDeterministic ==
    (pc = "ordered" /\ DistinctExtremes(contours.corners)) =>
        /\ ret.orderCorners = ByPosition(contours.corners)
        /\ ret.warpImage = ByPosition(contours.corners)
        /\ \A perm \in Perms4 :
              /\ orderCorners(Permuted(contours.corners, perm)) = ret.orderCorners
              /\ warpOrderedCorners(Permuted(contours.corners, perm)) = ret.warpImage

\* four corners handed over as BL, BR, TR, TL and returned as four different
\* points in another order
C13_Witness ==
    /\ pc = "ordered"
    /\ DistinctExtremes(contours.corners)
    /\ contours.corners = << <<0, 2>>, <<2, 2>>, <<2, 0>>, <<0, 0>> >>
    /\ ret.orderCorners = << <<0, 0>>, <<2, 0>>, <<2, 2>>, <<0, 2>> >>
    /\ ret.warpImage = ret.orderCorners

(***************************************************************************)
(* Threshold policy                                                        *)
(***************************************************************************)
\* the thresholding calls the priority order adaptive, manual, automatic
\* prescribes for the three threshold parameters
PrescribedThresholds(adaptive, manual, offset) ==
    IF adaptive THEN <<ThresholdCall("adaptiveThreshold", 0)>>
    ELSE IF manual > 0 THEN <<ThresholdCall("threshold_fixed", manual)>>
    ELSE IF offset = 0 THEN <<ThresholdCall("threshold_otsu", 0)>>
    ELSE <<ThresholdCall("threshold_otsu", 0), ThresholdCall("threshold_otsu_plus", offset)>>

\* C14: a run that reached object extraction has binarized once, by the
\* adaptive threshold when it was requested, whatever the manual value;
\* otherwise by the manual value when positive; otherwise by Otsu's
\* threshold, followed by the threshold at Otsu's value plus the offset when
\* the offset is not 0. This holds of the caller's PrintTraceParams as well.
\* Without the adaptive request a manual value of 0 is the automatic policy,
\* and no run thresholds at the fixed value 0.
C14_ThresholdPriority ==
    /\ ~Invoked("findObjectContour") => img.thresholds = << >>
    /\ Invoked("findObjectContour") =>
          /\ img.thresholds = PrescribedThresholds(cpp_params.useAdaptiveThreshold,
                                                   cpp_params.manualThreshold,
                                                   cpp_params.thresholdOffset)
          /\ GivenParams =>
                img.thresholds = PrescribedThresholds(call.params.use_adaptive_threshold,
                                                      call.params.manual_threshold,
                                                      call.params.threshold_offset)
          /\ ThresholdCall("threshold_fixed", 0) # img.thresholds[1]
          /\ (~cpp_params.useAdaptiveThreshold /\ cpp_params.manualThreshold = 0) =>
                img.thresholds[1] = ThresholdCall("threshold_otsu", 0)

\* a C API run with the adaptive threshold requested and a positive manual
\* threshold supplied, whose object extraction binarized adaptively
C14_Witness ==
    /\ Succeeded
    /\ GivenParams
    /\ call.params.use_adaptive_threshold
    /\ call.params.manual_threshold > 0
    /\ stage >= PRINT_TRACE_STAGE_OBJECT_DETECTED
    /\ img.thresholds = <<ThresholdCall("adaptiveThreshold", 0)>>

(***************************************************************************)
(* Disabled optional stages                                                *)
(***************************************************************************)
ModelContours == {Line2, Speck, Tri, Square, Grown, << >>}
ContourAt(s) == stageOut[s].contour

\* C15: dilateContour with an amount of 0 or below returns the contour it was
\* given; in a run that produced the Dilated stage with a dilation amount of
\* 0 or below, the Dilated contour is the Smoothed contour; in a run that
\* produced the Smoothed stage with smoothing disabled or a smoothing amount
\* of 0 or below, the Smoothed contour is the ObjectDetected contour.
C15_DisabledStageKeepsContour ==
    /\ \A c \in ModelContours, d \in {0, -1000}, path \in Paths :
          dilateContour(c, d, FileAt(path)) = c
    /\ (stage >= PRINT_TRACE_STAGE_DILATED /\ cpp_params.dilationAmountMM <= 0) =>
          ContourAt(PRINT_TRACE_STAGE_DILATED) = ContourAt(PRINT_TRACE_STAGE_SMOOTHED)
    /\ (/\ stage >= PRINT_TRACE_STAGE_SMOOTHED
        /\ ~cpp_params.enableSmoothing \/ cpp_params.smoothingAmountMM <= 0) =>
          ContourAt(PRINT_TRACE_STAGE_SMOOTHED) = ContourAt(PRINT_TRACE_STAGE_OBJECT_DETECTED)

\* a run through processImageToContour with smoothing enabled at an amount
\* of 0 and no dilation, on an image whose object smoothing would change:
\* smoothContour was called and the three contours are the same
C15_Witness ==
    /\ Succeeded
    /\ call.api = "cpp_contour"
    /\ cpp_params.enableSmoothing
    /\ cpp_params.smoothingAmountMM = 0
    /\ cpp_params.dilationAmountMM = 0
    /\ Invoked("smoothContour")
    /\ smoothContourCurvatureBased(ContourAt(PRINT_TRACE_STAGE_OBJECT_DETECTED),
                                   FileAt(call.path))
          # ContourAt(PRINT_TRACE_STAGE_OBJECT_DETECTED)
    /\ ContourAt(PRINT_TRACE_STAGE_SMOOTHED) = ContourAt(PRINT_TRACE_STAGE_OBJECT_DETECTED)
    /\ ContourAt(PRINT_TRACE_STAGE_DILATED) = ContourAt(PRINT_TRACE_STAGE_OBJECT_DETECTED)

(***************************************************************************)
(* Re-extraction fallback                                                  *)
(***************************************************************************)
\* findContours on the mask found nothing, or nothing of positive area
NoneRecoverable(found) == found = << >> \/ LargestFrom(found, 1, 0) = 0

\* the run has an error that is not the Final stage's validation failure
ErrorBeforeFinal == ret.kind = "throw" /\ ret.what # MsgValidation

\* C16: when dilation ran and no contour could be re-extracted from the
\* dilated mask, the Dilated contour is the contour dilation was given; when
\* morphological smoothing ran and no contour could be re-extracted from the
\* smoothed mask, the Smoothed contour is the ObjectDetected contour; in both
\* cases the stage was produced, no error was raised by it, and the run
\* returns the stage's pair or goes on to the next stage.
C16_FallbackToOriginal ==
    /\ (Invoked("dilateContour") /\ NoneRecoverable(FileAt(call.path).dilated)) =>
          /\ stage >= PRINT_TRACE_STAGE_DILATED
          /\ ContourAt(PRINT_TRACE_STAGE_DILATED) = ContourAt(PRINT_TRACE_STAGE_SMOOTHED)
          /\ ~ErrorBeforeFinal
          /\ IF call.target = PRINT_TRACE_STAGE_DILATED
             THEN ret = stageOut[PRINT_TRACE_STAGE_DILATED]
             ELSE pc = "s_final" \/ Invoked("validateContour")
    /\ (/\ Invoked("smoothContour")
        /\ cpp_params.smoothingAmountMM > 0
        /\ AlgorithmOf(cpp_params) = "morphological"
        /\ NoneRecoverable(FileAt(call.path).morphed)) =>
          /\ stage >= PRINT_TRACE_STAGE_SMOOTHED
          /\ ContourAt(PRINT_TRACE_STAGE_SMOOTHED)
                = ContourAt(PRINT_TRACE_STAGE_OBJECT_DETECTED)
          /\ ~ErrorBeforeFinal
          /\ IF call.target = PRINT_TRACE_STAGE_SMOOTHED
             THEN ret = stageOut[PRINT_TRACE_STAGE_SMOOTHED]
             ELSE pc = "s_dilate" \/ stage >= PRINT_TRACE_STAGE_DILATED

\* a run through processImageToContour in which morphological smoothing found
\* no contour on its mask and dilation found only one without area, and
\* which returned the ObjectDetected contour as the Final one
C16_Witness ==
    /\ Succeeded
    /\ call.api = "cpp_contour"
    /\ AlgorithmOf(cpp_params) = "morphological"
    /\ Invoked("smoothContour")
    /\ Invoked("dilateContour")
    /\ FileAt(call.path).morphed = << >>
    /\ FileAt(call.path).dilated # << >>
    /\ NoneRecoverable(FileAt(call.path).dilated)
    /\ stage = PRINT_TRACE_STAGE_FINAL
    /\ Len(ret.contour) = 4
    /\ ret.contour = ContourAt(PRINT_TRACE_STAGE_OBJECT_DETECTED)

(***************************************************************************)
(* Debug artifacts                                                         *)
(***************************************************************************)
DebugOn == cpp_params.enableDebugOutput /\ cpp_params.verboseOutput

\* no name occurs twice among the artifacts handed to the sink
NoneDeliveredTwice ==
    \A i, j \in 1 .. Len(debugged) : debugged[i].name = debugged[j].name => i = j

\* C17 as stated: a run with debug output enabled that returned the pair of
\* its requested stage, whichever stage, has handed artifacts to the debug
\* sink, numbered 1, 2, .. in order, each once, and its artifact list is
\* empty.
C17_FlushedOnceAtRequestedStage ==
    (Succeeded /\ call.api # "none" /\ DebugOn) =>
        /\ debugged # << >>
        /\ debugged[1].name = "original"
        /\ \A i \in 1 .. Len(debugged) : debugged[i].index = i
        /\ NoneDeliveredTwice
        /\ cpp_params.debugImageStack = << >>

\* C18 as stated: when a run starts, the artifact list of its
\* ProcessingParams is empty, and what a run hands to the sink holds nothing
\* pushed by an earlier run on the same ProcessingParams: no name of the
\* run's own sequence of artifacts occurs twice in it.
C18_ArtifactListEmptyAtStart ==
    /\ pc = "s_load" => cpp_params.debugImageStack = << >>
    /\ (call.api \in CppApis /\ prev.api \in CppApis) => NoneDeliveredTwice

(***************************************************************************)
(* Image size                                                              *)
(***************************************************************************)
\* the file of the run was decoded
Decoded == call.path # "null" /\ FileAt(call.path).exists /\ FileAt(call.path).decodable

TooSmall == ret.kind = "throw" /\ ret.what = MsgTooSmall

\* C19: a run, whatever its target stage, that loaded an image of fewer than
\* 100 rows or fewer than 100 columns has failed with "Image too small"
\* right after loadImage: nothing else was invoked, no stage output exists,
\* and the C API returns PRINT_TRACE_ERROR_IMAGE_TOO_SMALL (a C++ entry point
\* is left by the exception). A run that loaded an image of exactly 100 x 100
\* has produced the Loaded stage and never fails with that error.
C19_TooSmallRejected ==
    /\ (/\ Invoked("loadImage")
        /\ Decoded
        /\ FileAt(call.path).rows < 100 \/ FileAt(call.path).cols < 100) =>
          /\ TooSmall
          /\ comps = <<[fn |-> "loadImage", stage |-> PRINT_TRACE_STAGE_LOADED]>>
          /\ stage = -1
          /\ stageOut = NoStageOut
          /\ img = NoImg
          /\ pc = "idle" =>
                result = IF IsCApi THEN Returned(PRINT_TRACE_ERROR_IMAGE_TOO_SMALL)
                         ELSE Thrown
    /\ (/\ Invoked("loadImage")
        /\ Decoded
        /\ FileAt(call.path).rows = 100
        /\ FileAt(call.path).cols = 100) =>
          /\ ~TooSmall
          /\ stage >= PRINT_TRACE_STAGE_LOADED
          /\ result # Returned(PRINT_TRACE_ERROR_IMAGE_TOO_SMALL)

\* print_trace_process_to_stage with target Loaded returned
\* PRINT_TRACE_ERROR_IMAGE_TOO_SMALL for an image of 100 rows and 99 columns
C19_Witness ==
    /\ pc = "idle"
    /\ call.api = "to_stage"
    /\ call.target = PRINT_TRACE_STAGE_LOADED
    /\ FileAt(call.path).rows = 100
    /\ FileAt(call.path).cols = 99
    /\ TooSmall
    /\ result = Returned(PRINT_TRACE_ERROR_IMAGE_TOO_SMALL)

(***************************************************************************)
(* Corner detection: detectCornersFromContour, detectCornersFromEdges and  *)
(* detectLightboxCorners on a scene, and the corner search of              *)
(* processImageToStage on a boundary. A scene is what OpenCV finds:        *)
(*   contours     findContours on the mask finds a contour                 *)
(*   positiveArea one of them has an area above 0                          *)
(*   fine, coarse approxPolyDP yields more than 4 vertices for an epsilon  *)
(*                below `fine`, 4 from `fine` up to `coarse`, fewer from   *)
(*                `coarse` on (epsilon in units of 0.005 * perimeter)      *)
(*   sane         the area, solidity and aspect ratio checks pass          *)
(*   lines, horizontal, vertical   the Hough lines and their two clusters  *)
(*   inBounds     which of the 4 intersections lie inside the image        *)
(*   valid        validateCorners' bounds, area and aspect checks pass     *)
(***************************************************************************)
\* largest epsilon at which the approximation of a scene changes
MaxEps == 6
\* most vertices a hull approximation or a candidate scan yields
MaxVertices == 6

Scenes ==
    [contours : BOOLEAN, positiveArea : BOOLEAN, fine : 1 .. MaxEps, coarse : 1 .. MaxEps,
     sane : BOOLEAN, lines : 3 .. 5, horizontal : 1 .. 3, vertical : 1 .. 3,
     inBounds : SUBSET (1 .. 4), valid : BOOLEAN]

\* the scenes that can occur: the clusters are taken from the lines
PossibleScenes ==
    {sc \in Scenes : sc.fine <= sc.coarse /\ sc.horizontal + sc.vertical <= sc.lines}

VerticesAt(sc, epsilon) ==
    IF epsilon < sc.fine THEN 6 ELSE IF epsilon < sc.coarse THEN 4 ELSE 3

\* lines 210-221: the number of vertices of `approx` when the loop ends
RECURSIVE ApproxAfter(_, _, _, _)
ApproxAfter(sc, attempts, epsilon, last) ==
    IF attempts >= 10 THEN last
    ELSE LET n == VerticesAt(sc, epsilon)
         IN  IF n = 4 THEN n
             ELSE IF n > 4 THEN ApproxAfter(sc, attempts + 1, epsilon + 2, n)
             ELSE IF epsilon - 1 <= 1 THEN n
             ELSE ApproxAfter(sc, attempts + 1, epsilon - 1, n)

detectCornersFromContour(sc) ==
    IF ~sc.contours THEN << >>
    ELSE IF ~sc.positiveArea THEN << >>
    ELSE LET approx == NGon(ApproxAfter(sc, 0, 4, 0))
         IN  IF Len(approx) = 4 /\ sc.sane THEN ToFloat(approx) ELSE << >>

\* the elements of seq at the indices in keep, in order
RECURSIVE Kept(_, _, _)
Kept(seq, keep, i) ==
    IF i > Len(seq) THEN << >>
    ELSE (IF i \in keep THEN <<seq[i]>> ELSE << >>) \o Kept(seq, keep, i + 1)

detectCornersFromEdges(sc) ==
    IF sc.lines < 4 THEN << >>
    ELSE IF sc.horizontal < 2 \/ sc.vertical < 2 THEN << >>
    ELSE LET candidateCorners == ToFloat(Quad)
             corners == Kept(candidateCorners, sc.inBounds, 1)
         IN  IF Len(corners) = 4 THEN corners ELSE << >>

validateCorners(corners, sc) ==
    IF Len(corners) # 4 THEN FALSE ELSE sc.valid

detectLightboxCorners(sc) ==
    LET fromContour == detectCornersFromContour(sc)
        corners == IF fromContour = << >> THEN detectCornersFromEdges(sc)
                   ELSE fromContour
    IN  IF corners = << >> THEN << >>
        ELSE IF ~validateCorners(orderCorners(corners), sc) THEN << >>
        ELSE orderCorners(corners)

\* the boundaries the corner search is applied to: the approximation has
\* more than 4 vertices up to attempt k1, 4 up to attempt k2, fewer after
SearchFiles ==
    { [GoodFile EXCEPT
          !.approx = [i \in 1 .. 10 |-> IF i < k1 THEN 6 ELSE IF i < k2 THEN 4 ELSE 3],
          !.hull = h, !.candidates = c] :
        k1 \in 1 .. 11, k2 \in 1 .. 11, h \in 3 .. MaxVertices, c \in 0 .. MaxVertices }

InitCorners ==
    /\ \/ /\ pc = "detect"
          /\ \E sc \in PossibleScenes :
                call = [NoCall EXCEPT !.api = "detect", !.params = sc]
       \/ /\ pc = "search"
          /\ \E f \in SearchFiles :
                call = [NoCall EXCEPT !.api = "search", !.params = f]
    /\ runs = 0
    /\ cpp_params = ProcessingParams
    /\ stage = -1
    /\ comps = << >>
    /\ img = NoImg
    /\ contours = NoContours
    /\ stageOut = NoStageOut
    /\ ret = NoRet
    /\ progress = << >>
    /\ errors = << >>
    /\ debugged = << >>
    /\ result = NoResult
    /\ out = NoOut
    /\ prev = NoPrev
    /\ vres = NoResult

Detect ==
    /\ pc = "detect"
    /\ ret' = [kind |-> "detected",
               fromContour |-> detectCornersFromContour(call.params),
               fromEdges |-> detectCornersFromEdges(call.params),
               lightbox |-> detectLightboxCorners(call.params)]
    /\ pc' = "detected"
    /\ UNCHANGED <<runs, call, cpp_params, stage, comps, img, contours, stageOut,
                   progress, errors, debugged, result, out, prev, vres>>

\* lines 1796-1941 on a boundary: the corners, their refinement, the warp
CornerSearch ==
    /\ pc = "search"
    /\ LET b == findBoundaryContour(call.params)
           corners == SelectCorners(call.params, b.contour)
           refinedCorners == refineCorners(corners, cpp_params)
       IN  ret' = [kind |-> "searched", corners |-> corners, refined |-> refinedCorners,
                   warp |-> warpImage(Mat("gray", "boundary"), refinedCorners,
                                      cpp_params.lightboxWidthPx,
                                      cpp_params.lightboxHeightPx,
                                      cpp_params.lightboxWidthMM,
                                      cpp_params.lightboxHeightMM)]
    /\ pc' = "searched"
    /\ UNCHANGED <<runs, call, cpp_params, stage, comps, img, contours, stageOut,
                   progress, errors, debugged, result, out, prev, vres>>

NextCorners == Detect \/ CornerSearch

SpecCorners == InitCorners /\ [][NextCorners]_vars

EmptyOrFour(corners) == Len(corners) \in {0, 4}

\* C20: what detectCornersFromContour, detectCornersFromEdges and
\* detectLightboxCorners return on a scene is empty or has exactly 4 points;
\* the corner search of the pipeline ends with exactly 4 corners whichever of
\* its fallbacks supplies them, refinement keeps them 4, and the warp never
\* fails for the number of corners.
C20_CornerSetsOfFour ==
    /\ pc = "detected" =>
          /\ EmptyOrFour(ret.fromContour)
          /\ EmptyOrFour(ret.fromEdges)
          /\ EmptyOrFour(ret.lightbox)
    /\ pc = "searched" =>
          /\ Len(ret.corners) = 4
          /\ Len(ret.refined) = 4
          /\ ret.warp.kind = "value"

\* a boundary whose approximations never have 4 vertices, whose hull has 5
\* and whose scan finds 6 corner candidates: 4 of them went to the warp
C20_Witness ==
    /\ pc = "searched"
    /\ ~ApproxLoop(call.params, 0, 20).found
    /\ call.params.hull = 5
    /\ call.params.candidates = 6
    /\ Len(ret.refined) = 4
    /\ ret.warp.kind = "value"

(***************************************************************************)
(* Outputs of a failed call                                                *)
(***************************************************************************)
\* print_trace_process_to_stage itself, or reached through
\* print_trace_process_image_to_contour, has returned an error code
ToStageFailed ==
    /\ call.api \in {"to_stage", "to_contour"}
    /\ pc = "idle"
    /\ result.done
    /\ result.code # PRINT_TRACE_SUCCESS

\* the caller's structs hold nothing
OutputsCleared ==
    /\ call.result_image => out.image = NullImage
    /\ call.contour => out.contour = NullContour

\* C21 as stated: whenever print_trace_process_to_stage returns a code other
\* than PRINT_TRACE_SUCCESS, the caller's result_image holds no data and the
\* caller's contour, when supplied, holds no points.
C21_FailedCallClearsOutputs ==
    ToStageFailed => OutputsCleared

\* the part of C21 the code keeps: a failed call that got past the pointer
\* check of lines 427-432 leaves both structs cleared
C21_ClearedPastPointerCheck ==
    (ToStageFailed /\ call.path # "null" /\ call.result_image) => OutputsCleared

(***************************************************************************)
(* Termination of a call                                                   *)
(***************************************************************************)
\* the values of PrintTraceResult
ResultCodes ==
    {PRINT_TRACE_SUCCESS, PRINT_TRACE_ERROR_INVALID_INPUT,
     PRINT_TRACE_ERROR_FILE_NOT_FOUND, PRINT_TRACE_ERROR_IMAGE_LOAD_FAILED,
     PRINT_TRACE_ERROR_IMAGE_TOO_SMALL, PRINT_TRACE_ERROR_NO_CONTOURS,
     PRINT_TRACE_ERROR_NO_BOUNDARY, PRINT_TRACE_ERROR_NO_OBJECT,
     PRINT_TRACE_ERROR_DXF_WRITE_FAILED, PRINT_TRACE_ERROR_INVALID_PARAMETERS,
     PRINT_TRACE_ERROR_PROCESSING_FAILED}

\* a step of a call of the C API that has been entered
Step ==
    \/ DxfCheckInput
    \/ ApiCheckInput
    \/ ApiCheckFile
    \/ ApiValidate
    \/ ApiBegin
    \/ StageLoaded
    \/ StageLightboxCropped
    \/ StageNormalized
    \/ StageBoundaryDetected
    \/ StageObjectDetected
    \/ StageSmoothed
    \/ StageDilated
    \/ StageFinal
    \/ ApiConvert
    \/ ApiCatch
    \/ \E writable \in BOOLEAN : DxfSave(writable)

\* the calls the fair specification follows: the entry points of the C API
\* on every file, with no parameters, the valid structs with the optional
\* stages on and off, the rejected ones, and refinement switched off
FairShapes == {shape \in CallShapes : shape.api \notin CppApis}
FairParams == {NullParams} \cup PipelineParams \cup BadParams \cup RefinementParams

\* every entry point is sequential code whose loops are bounded (10
\* approximation attempts, one pass over the contours found), so a call that
\* has been entered keeps taking steps; that holds for each call by itself,
\* so the fair specification follows one call on each input
FirstCall ==
    /\ runs = 0
    /\ \E path \in Paths, params \in FairParams, shape \in FairShapes :
          Call(path, params, shape)

NextFair == FirstCall \/ Step

SpecFair == Init /\ [][NextFair]_vars /\ WF_vars(Step)

\* dilation ran and nothing could be re-extracted from its mask
DilationFellBack ==
    Invoked("dilateContour") /\ NoneRecoverable(FileAt(call.path).dilated)

\* refineCorners was called with sub-pixel refinement switched off
RefinementSkipped ==
    Invoked("refineCorners") /\ ~cpp_params.enableSubPixelRefinement

\* C22: every call of print_trace_process_to_stage (also through its two
\* wrappers) terminates and returns PRINT_TRACE_SUCCESS or an error code of
\* PrintTraceResult; an exception raised by a pipeline stage is caught in
\* the C API and never leaves it; a dilation that recovers no contour and a
\* skipped sub-pixel refinement do not end the run: the stage they belong to
\* is produced and the only error such a run can still end with past that
\* stage is one raised by a later step.
C22_TerminatesWithCode ==
    /\ [](IsCApi /\ pc = "idle" =>
            /\ result.done
            /\ ~result.thrown
            /\ result.code \in ResultCodes)
    /\ [](IsCApi /\ ret.kind = "throw" => pc \in {"api_catch", "idle"})
    /\ [](IsCApi /\ DilationFellBack =>
            /\ stage >= PRINT_TRACE_STAGE_DILATED
            /\ ret.kind = "throw" => ret.what = MsgValidation)
    /\ [](IsCApi /\ RefinementSkipped /\ contours.refined # << >> =>
            /\ contours.refined = ToFloat(contours.corners)
            /\ ret.kind = "throw" => ret.what \notin {MsgFourCorners, MsgEmptyImage})
    /\ (IsCApi /\ pc # "idle") ~> (IsCApi /\ pc = "idle" /\ result.done)

\* a call of the C API in which sub-pixel refinement was skipped, a later
\* stage threw, and the call returned the error code of that exception
C22_Witness ==
    /\ IsCApi
    /\ pc = "idle"
    /\ RefinementSkipped
    /\ stage >= PRINT_TRACE_STAGE_LIGHTBOX_CROPPED
    /\ ret.kind = "throw"
    /\ result.done /\ ~result.thrown
    /\ result.code = handleException(ret.what)

(***************************************************************************)
(* warpImage on its own: both overloads on images, corner lists and sizes  *)
(***************************************************************************)
\* the longest corner list handed to warpImage
MaxCorners == 5

\* target sizes in pixels and physical sizes in thousandths of a mm, on both
\* sides of zero
WarpSizesPx == {-1, 0, 1, 500}
WarpSizesMM == {-1000, 0, 1, 10000}

WarpInputs ==
    [originalImg : {NoMat, Mat("gray", "min")},
     corners : {NGon(n) : n \in 0 .. MaxCorners},
     width : WarpSizesPx, height : WarpSizesPx,
     realWorldWidthMM : WarpSizesMM, realWorldHeightMM : WarpSizesMM]

InitWarp ==
    /\ pc = "warp"
    /\ runs = 0
    /\ call \in {[NoCall EXCEPT !.params = w] : w \in WarpInputs}
    /\ cpp_params = ProcessingParams
    /\ stage = -1
    /\ comps = << >>
    /\ img = NoImg
    /\ contours = NoContours
    /\ stageOut = NoStageOut
    /\ ret = NoRet
    /\ progress = << >>
    /\ errors = << >>
    /\ debugged = << >>
    /\ result = NoResult
    /\ out = NoOut
    /\ prev = NoPrev
    /\ vres = NoResult

\* warpImage(originalImg, corners, Size(width, height), widthMM, heightMM)
Warp ==
    /\ pc = "warp"
    /\ ret' = warpImage(call.params.originalImg, ToFloat(call.params.corners),
                        call.params.width, call.params.height,
                        call.params.realWorldWidthMM, call.params.realWorldHeightMM)
    /\ pc' = "warped"
    /\ UNCHANGED <<runs, call, cpp_params, stage, comps, img, contours, stageOut,
                   progress, errors, debugged, result, out, prev, vres>>

\* the legacy overload warpImage(binaryImg, approx, side, realWorldSizeMM):
\* the points converted to float, the square target, one physical size
WarpLegacy ==
    /\ pc = "warp"
    /\ call.params.width = call.params.height
    /\ call.params.realWorldWidthMM = call.params.realWorldHeightMM
    /\ ret' = warpImage(call.params.originalImg, ToFloat(call.params.corners),
                        call.params.width, call.params.width,
                        call.params.realWorldWidthMM, call.params.realWorldWidthMM)
    /\ pc' = "warped_legacy"
    /\ UNCHANGED <<runs, call, cpp_params, stage, comps, img, contours, stageOut,
                   progress, errors, debugged, result, out, prev, vres>>

NextWarp == Warp \/ WarpLegacy

SpecWarp == InitWarp /\ [][NextWarp]_vars

WarpReturned == pc \in {"warped", "warped_legacy"}

\* an input the precondition of warpImage excludes
BadWarpInput(w) ==
    \/ Len(w.corners) # 4
    \/ w.width <= 0 \/ w.height <= 0
    \/ w.realWorldWidthMM <= 0 \/ w.realWorldHeightMM <= 0

\* warpImage left by one of the exceptions of its input checks, with neither
\* a warped image nor a scale
FailedOnInput(r) ==
    /\ r.kind = "throw"
    /\ r.type \in {"invalid_argument", "runtime_error"}
    /\ r.what \in {MsgEmptyImage, MsgFourCorners, MsgBadSize}
    /\ DOMAIN r \cap {"image", "pixelsPerMM"} = {}

\* C23: warpImage, in both overloads, fails at its input checks, with no
\* warped image and no scale, whenever the number of corners is not 4 or the
\* target width, the target height, the physical width or the physical
\* height is not strictly positive; with exactly 4 corners, a non-empty
\* image and strictly positive sizes it passes the checks and returns the
\* warped image and a strictly positive scale.
C23_WarpPrecondition ==
    WarpReturned =>
        /\ BadWarpInput(call.params) => FailedOnInput(ret)
        /\ (~BadWarpInput(call.params) /\ call.params.originalImg # NoMat) =>
              /\ ret.kind = "value"
              /\ ret.image # NoMat
              /\ ret.pixelsPerMM > 0

\* warpImage returned for 4 corners, a non-empty image and a physical width
\* of zero: it threw the size error
C23_Witness ==
    /\ pc = "warped"
    /\ Len(call.params.corners) = 4
    /\ call.params.originalImg # NoMat
    /\ call.params.width = 1 /\ call.params.height = 1
    /\ call.params.realWorldWidthMM = 0
    /\ call.params.realWorldHeightMM = 1
    /\ ret = Throw("invalid_argument", MsgBadSize)

(***************************************************************************)
(* The searches for a 4-vertex approximation                               *)
(***************************************************************************)
\* lines 1799-1814: the attempts of the loop of processImageToStage on a
\* file, each with the epsilon factor it used (in thousandths) and the
\* number of vertices it yielded
RECURSIVE ApproxAttempts(_, _, _)
ApproxAttempts(f, attempts, epsilonFactor) ==
    IF attempts >= 10 THEN << >>
    ELSE <<[epsilon |-> epsilonFactor, vertices |-> f.approx[attempts + 1]]>>
         \o (IF f.approx[attempts + 1] = 4 THEN << >>
             ELSE ApproxAttempts(f, attempts + 1, epsilonFactor + 5))

\* lines 210-221 and 669-683: the attempts of the loops of
\* detectCornersFromContour (epsilon from 0.02 of the perimeter, raised by
\* 0.01, lowered by 0.005) and of detectEdges (raised by 0.005, lowered by
\* 0.002), both left when epsilon falls to 0.005 of the perimeter; epsilon
\* in 1/scale of 0.005 of the perimeter
RECURSIVE EpsilonAttempts(_, _, _, _, _, _)
EpsilonAttempts(sc, scale, attempts, epsilon, up, down) ==
    IF attempts >= 10 THEN << >>
    ELSE LET n == IF epsilon < sc.fine * scale THEN 6
                  ELSE IF epsilon < sc.coarse * scale THEN 4 ELSE 3
         IN  <<[epsilon |-> epsilon, vertices |-> n]>>
             \o (IF n = 4 THEN << >>
                 ELSE IF n > 4
                 THEN EpsilonAttempts(sc, scale, attempts + 1, epsilon + up, up, down)
                 ELSE IF epsilon - down <= scale THEN << >>
                 ELSE EpsilonAttempts(sc, scale, attempts + 1, epsilon - down, up, down))

\* a search as the claim describes it
SearchAdjusts(tries) ==
    /\ Len(tries) <= 10
    /\ \A k \in 1 .. Len(tries) : tries[k].epsilon > 0
    /\ \A k \in 1 .. Len(tries) - 1 :
          /\ tries[k].vertices # 4
          /\ tries[k].vertices > 4 => tries[k + 1].epsilon > tries[k].epsilon
          /\ tries[k].vertices < 4 => tries[k + 1].epsilon < tries[k].epsilon

\* C24 as stated, for the approximation loop of processImageToStage: the
\* tolerance is increased after an attempt that yields more than 4 vertices
\* and decreased after one that yields fewer than 4, every tolerance used is
\* strictly positive, and the search ends on the first 4-vertex result or
\* after at most 10 attempts.
C24_ToleranceFollowsVertexCount ==
    Invoked("approximatePolygon") =>
        SearchAdjusts(ApproxAttempts(FileAt(call.path), 0, 20))

\* the same for the loops of detectCornersFromContour and detectEdges, which
\* do lower the tolerance after too few vertices
C24_EpsilonLoopsAdjust ==
    pc = "detected" =>
        /\ SearchAdjusts(EpsilonAttempts(call.params, 1, 0, 4, 2, 1))
        /\ SearchAdjusts(EpsilonAttempts(call.params, 5, 0, 20, 5, 2))

\* the attempts of detectCornersFromContour end with the vertex count
\* ApproxAfter computes
C24_AttemptsAgree ==
    pc = "detected" =>
        LET tries == EpsilonAttempts(call.params, 1, 0, 4, 2, 1)
        IN  tries[Len(tries)].vertices = ApproxAfter(call.params, 0, 4, 0)

(***************************************************************************)
(* findObjectContour on its own: the labelled components of a binarized    *)
(* image, disconnected from each other, in both selection modes            *)
(***************************************************************************)
\* most foreground components of an image
MaxComponents == 3

\* the outline of component i: a square of the side that goes with its
\* area, 100 pixels to the right of the one before
SideOf(area) == IF area >= 1200 THEN 34 ELSE IF area >= 600 THEN 24 ELSE 9
OutlineAt(i, area) ==
    << <<100 * i, 0>>, <<100 * i + SideOf(area), 0>>,
       <<100 * i + SideOf(area), SideOf(area)>>, <<100 * i, SideOf(area)>> >>

ComponentChoices == [area : {90, 600, 1200}, dist : {0, 300}]

ComponentLists ==
    UNION { { [i \in 1 .. n |-> [area |-> pick[i].area, dist |-> pick[i].dist,
                                outline |-> OutlineAt(i, pick[i].area)]] :
                pick \in [1 .. n -> ComponentChoices] } : n \in 0 .. MaxComponents }

InitObject ==
    /\ pc = "object"
    /\ runs = 0
    /\ call \in {[NoCall EXCEPT !.params = [components |-> cs]] : cs \in ComponentLists}
    /\ cpp_params \in {[ProcessingParams EXCEPT !.mergeNearbyContours = m,
                                                !.minContourArea = a] :
                          m \in BOOLEAN, a \in {500000, 1000000}}
    /\ stage = -1
    /\ comps = << >>
    /\ img = NoImg
    /\ contours = NoContours
    /\ stageOut = NoStageOut
    /\ ret = NoRet
    /\ progress = << >>
    /\ errors = << >>
    /\ debugged = << >>
    /\ result = NoResult
    /\ out = NoOut
    /\ prev = NoPrev
    /\ vres = NoResult

FindObject ==
    /\ pc = "object"
    /\ ret' = findObjectContour(call.params, cpp_params)
    /\ pc' = "object_found"
    /\ UNCHANGED <<runs, call, cpp_params, stage, comps, img, contours, stageOut,
                   progress, errors, debugged, result, out, prev, vres>>

NextObject == FindObject

SpecObject == InitObject /\ [][NextObject]_vars

\* the components of at least the minimum area
Qualifying ==
    {i \in 1 .. Len(call.params.components) :
        call.params.components[i].area * 1000 >= cpp_params.minContourArea}

Vertices(c) == {c[k] : k \in 1 .. Len(c)}

\* every vertex of `inner` lies within the extent of `outer`, which it must
\* to lie inside it
WithinExtent(inner, outer) ==
    \A v \in Vertices(inner) :
        /\ \E a, b \in Vertices(outer) : a[1] <= v[1] /\ v[1] <= b[1]
        /\ \E a, b \in Vertices(outer) : a[2] <= v[2] /\ v[2] <= b[2]

\* C25 as stated: in merge mode the contour findObjectContour returns is the
\* outline of the union of all components of at least minContourArea: every
\* one of them lies inside the returned contour, also when two or more
\* disconnected ones qualify, and no component below the minimum area
\* contributes a vertex to it.
C25_MergedOutlineCoversAll ==
    (pc = "object_found" /\ cpp_params.mergeNearbyContours /\ ret.kind = "value") =>
        /\ \A i \in Qualifying :
              WithinExtent(call.params.components[i].outline, ret.contour)
        /\ \A i \in 1 .. Len(call.params.components) :
              i \notin Qualifying =>
                  Vertices(call.params.components[i].outline) \cap Vertices(ret.contour) = {}

\* what merge mode returns: the outline of one qualifying component, of the
\* largest area among the outlines of the qualifying ones; the components
\* below the minimum area contribute nothing
C25_LargestQualifyingOnly ==
    (pc = "object_found" /\ cpp_params.mergeNearbyContours /\ ret.kind = "value") =>
        /\ \E i \in Qualifying :
              /\ ret.contour = call.params.components[i].outline
              /\ \A j \in Qualifying :
                    contourArea2(call.params.components[j].outline)
                        <= contourArea2(ret.contour)
        /\ \A i \in 1 .. Len(call.params.components) :
              i \notin Qualifying =>
                  Vertices(call.params.components[i].outline) \cap Vertices(ret.contour) = {}

(***************************************************************************)
(* Progress reports                                                        *)
(***************************************************************************)
\* the values delivered so far lie in [0.0, 1.0] and never decrease
ProgressMonotone ==
    /\ \A k \in 1 .. Len(progress) : 0 <= progress[k] /\ progress[k] <= 1000
    /\ \A k \in 1 .. Len(progress) - 1 : progress[k] <= progress[k + 1]

CompletionReported == \E k \in 1 .. Len(progress) : progress[k] = 1000

\* C26 as stated: within one call of print_trace_process_to_stage or
\* print_trace_process_image_to_dxf the progress values delivered to the
\* progress callback all lie in [0.0, 1.0] and are non-decreasing, and the
\* value 1.0 is delivered only in a call that then returns
\* PRINT_TRACE_SUCCESS.
C26_ProgressEndsInSuccess ==
    call.api \in {"to_stage", "to_dxf"} =>
        /\ ProgressMonotone
        /\ (pc = "idle" /\ CompletionReported) => result = Returned(PRINT_TRACE_SUCCESS)

\* the part of C26 that holds for both entry points, and all of it for
\* print_trace_process_to_stage
C26_ProgressOfToStage ==
    /\ IsCApi => ProgressMonotone
    /\ (call.api \in {"to_stage", "to_contour"} /\ pc = "idle" /\ CompletionReported) =>
          result = Returned(PRINT_TRACE_SUCCESS)

(***************************************************************************)
(* Error callback                                                          *)
(***************************************************************************)
\* a call of the C API returned an error code to a caller that supplied an
\* error callback
FailedWithCallback ==
    /\ IsCApi
    /\ pc = "idle"
    /\ result.done
    /\ result.code # PRINT_TRACE_SUCCESS
    /\ call.error_callback

\* C27 as stated: whenever a C API call returns an error code and an error
\* callback was supplied, the callback is invoked exactly once during that
\* call, with the error code the call returns.
C27_CallbackCodeIsReturnCode ==
    FailedWithCallback => errors = <<result.code>>

\* what holds: the callback is invoked exactly once, and a call that
\* succeeds or has no callback invokes it never
C27_CallbackOnceOnFailure ==
    (IsCApi /\ pc = "idle") =>
        Len(errors) = IF FailedWithCallback THEN 1 ELSE 0

(***************************************************************************)
(* Corner ordering as a permutation                                        *)
(***************************************************************************)
\* `ordered` holds the corners of c, each in exactly one slot
IsPermutationOf(ordered, c) ==
    /\ Len(ordered) = 4
    /\ \E perm \in Perms4 : ordered = Permuted(c, perm)

\* C28 as stated: for any 4 input points orderCorners, and the ordering
\* inside warpImage, return a permutation of them: every input corner
\* occupies exactly one of the four output slots, none is duplicated and
\* none is dropped.
C28_OrderingIsPermutation ==
    pc = "ordered" =>
        /\ IsPermutationOf(ret.orderCorners, contours.corners)
        /\ IsPermutationOf(ret.warpImage, contours.corners)

\* what holds for any 4 points: every output slot holds one of the input
\* corners
C28_SlotsHoldInputCorners ==
    pc = "ordered" =>
        \A k \in 1 .. 4 :
            /\ \E i \in 1 .. 4 : ret.orderCorners[k] = contours.corners[i]
            /\ \E i \in 1 .. 4 : ret.warpImage[k] = contours.corners[i]

\* the corners of a square standing on a vertex lose one of them
C28_DiamondLosesCorner ==
    (pc = "ordered"
     /\ contours.corners = << <<1, 0>>, <<2, 1>>, <<1, 2>>, <<0, 1>> >>) =>
        /\ ret.orderCorners = << <<1, 0>>, <<1, 0>>, <<1, 2>>, <<0, 1>> >>
        /\ ret.warpImage = << <<1, 0>>, <<1, 0>>, <<2, 1>>, <<1, 2>> >>

(***************************************************************************)
(* Target stages outside the enumeration: calls of                         *)
(* print_trace_process_to_stage with the ordinals -1, 7 (Final) and 8      *)
(***************************************************************************)
PRINT_TRACE_STAGE_COUNT == 8

OutOfRangeTargets == {PRINT_TRACE_STAGE_LOADED - 1, PRINT_TRACE_STAGE_COUNT}

TargetShapes ==
    { [api |-> "to_stage", target |-> t, result_image |-> TRUE, contour |-> TRUE,
       progress_callback |-> TRUE, error_callback |-> TRUE] :
        t \in OutOfRangeTargets \cup {PRINT_TRACE_STAGE_FINAL} }

TargetCall ==
    /\ pc = "idle"
    /\ runs < MaxRuns
    /\ \E path \in (IF runs = 0 THEN Paths ELSE {call.path}),
          params \in (IF runs = 0 THEN CallParams ELSE {call.params}),
          shape \in TargetShapes :
            Call(path, params, shape)

NextTargets ==
    \/ TargetCall
    \/ ApiCheckInput
    \/ ApiCheckFile
    \/ ApiValidate
    \/ ApiBegin
    \/ StageLoaded
    \/ StageLightboxCropped
    \/ StageNormalized
    \/ StageBoundaryDetected
    \/ StageObjectDetected
    \/ StageSmoothed
    \/ StageDilated
    \/ StageFinal
    \/ ApiConvert
    \/ ApiCatch

SpecTargets == Init /\ [][NextTargets]_vars

OutOfRange == call.target \in OutOfRangeTargets

\* C29: a target_stage ordinal outside 0..7 is not rejected: the run returns
\* at no stage before Final, a pair it returns is the Final pair, produced
\* after every stage and the final validation, its debug artifacts are
\* flushed, and the call returns exactly what a call with target Final
\* returns on the same input: the same code, image and contour.
C29_OutOfRangeTargetRunsToFinal ==
    (OutOfRange /\ call.api = "to_stage") =>
        /\ (pc \in {"api_convert", "idle"} /\ ret.kind = "value") =>
              /\ stage = PRINT_TRACE_STAGE_FINAL
              /\ \A s \in Stages : stageOut[s].kind = "value"
              /\ Invoked("validateContour")
              /\ ret = stageOut[PRINT_TRACE_STAGE_FINAL]
              /\ cpp_params.debugImageStack = << >>
              /\ DebugOn => /\ debugged # << >>
                            /\ debugged[Len(debugged)].name = "final_contour"
        /\ (pc = "idle" /\ call.path # "null" /\ FileAt(call.path).exists
            /\ ~ParamsRejected) =>
              Invoked("loadImage")
        /\ (pc = "idle" /\ prev.api = "to_stage"
            /\ prev.target = PRINT_TRACE_STAGE_FINAL) =>
              /\ result = prev.result
              /\ ret = prev.ret
              /\ out = prev.out

\* a call with target 8 after a call with target Final on the same input,
\* with debug output on: both succeeded
C29_Witness ==
    /\ pc = "idle"
    /\ call.target = PRINT_TRACE_STAGE_COUNT
    /\ prev.api = "to_stage"
    /\ prev.target = PRINT_TRACE_STAGE_FINAL
    /\ Succeeded
    /\ DebugOn
    /\ debugged # << >>
    /\ out.contour.point_count >= 3
    /\ out = prev.out

(***************************************************************************)
(* The window of curvature-based smoothing: the index of the vertex that   *)
(* enters the weighted average at vertex i and offset j                    *)
(***************************************************************************)
\* most vertices of the simplified polygon
MaxPolygon == 5
\* largest smoothing amount in whole pixels
MaxSmoothingPixels == 15
\* width of size_t
SIZE_BITS == 64

\* lines 1131-1133: windowSize = static_cast<int>(smoothingPixels) | 1, at
\* least 3; halfWindow = windowSize / 2
HalfWindowOf(smoothingPixels) ==
    LET odd == IF smoothingPixels % 2 = 0 THEN smoothingPixels + 1 ELSE smoothingPixels
        windowSize == IF odd < 3 THEN 3 ELSE odd
    IN  windowSize \div 2

\* a mod n for any integer a
Mod(a, n) == ((a % n) + n) % n

\* 2^k mod n
RECURSIVE Pow2Mod(_, _)
Pow2Mod(k, n) == IF k = 0 THEN 1 % n ELSE (2 * Pow2Mod(k - 1, n)) % n

\* line 1153: (i + j + simplified.size()) % simplified.size(), with i and
\* the size of type size_t and j of type int: j is converted to size_t and
\* the sum is taken modulo 2^SIZE_BITS before the remainder
WindowIndex(i, j, n) ==
    IF i + j + n >= 0 THEN (i + j + n) % n
    ELSE (Pow2Mod(SIZE_BITS, n) + Mod(i + j + n, n)) % n

WindowInputs ==
    UNION { [n : {n}, smoothingPixels : 0 .. MaxSmoothingPixels, i : 0 .. (n - 1)] :
              n \in 1 .. MaxPolygon }

InitWindow ==
    /\ pc = "window"
    /\ runs = 0
    /\ call \in {[NoCall EXCEPT !.params = w] : w \in WindowInputs}
    /\ cpp_params = ProcessingParams
    /\ stage = -1
    /\ comps = << >>
    /\ img = NoImg
    /\ contours = NoContours
    /\ stageOut = NoStageOut
    /\ ret = NoRet
    /\ progress = << >>
    /\ errors = << >>
    /\ debugged = << >>
    /\ result = NoResult
    /\ out = NoOut
    /\ prev = NoPrev
    /\ vres = NoResult

\* lines 1152-1158 at vertex i: the indices of the window, offset by offset
Window ==
    /\ pc = "window"
    /\ LET halfWindow == HalfWindowOf(call.params.smoothingPixels)
       IN  ret' = [kind |-> "window", halfWindow |-> halfWindow,
                   idx |-> [j \in (-halfWindow) .. halfWindow |->
                               WindowIndex(call.params.i, j, call.params.n)]]
    /\ pc' = "windowed"
    /\ UNCHANGED <<runs, call, cpp_params, stage, comps, img, contours, stageOut,
                   progress, errors, debugged, result, out, prev, vres>>

NextWindow == Window

SpecWindow == InitWindow /\ [][NextWindow]_vars

\* C30 as stated: for every vertex index i of the simplified polygon of n
\* vertices and every window offset j in [-halfWindow, +halfWindow], the
\* vertex that enters the weighted average is the one at cyclic position
\* (i + j) mod n, also when halfWindow exceeds n, and the index lies in
\* 0 .. n-1.
C30_WindowIndexIsCyclic ==
    pc = "windowed" =>
        \A j \in DOMAIN ret.idx :
            /\ ret.idx[j] = Mod(call.params.i + j, call.params.n)
            /\ ret.idx[j] \in 0 .. (call.params.n - 1)

\* what holds: the index always lies in 0 .. n-1, and it is the cyclic
\* position for every offset j >= -(i + n), so for the whole window when
\* halfWindow is at most n, and for every offset when n is a power of 2
C30_IndexInRangeCyclicNearby ==
    pc = "windowed" =>
        \A j \in DOMAIN ret.idx :
            /\ ret.idx[j] \in 0 .. (call.params.n - 1)
            /\ (j >= -(call.params.i + call.params.n) \/ call.params.n \in {1, 2, 4}) =>
                  ret.idx[j] = Mod(call.params.i + j, call.params.n)

\* a triangle smoothed with a window of 9: at vertex 0 and offset -4 the
\* vertex averaged is vertex 0, the cyclic position is 2
C30_TriangleWindow ==
    (pc = "windowed" /\ call.params.n = 3 /\ call.params.i = 0 /\ ret.halfWindow = 4) =>
        ret.idx[-4] = 0 /\ Mod(-4, 3) = 2

====
